---- MODULE Spec2Model ----
(***************************************************************************)
(* Model of pycti's connector helper (opencti_connector_helper.py):        *)
(*   - the legacy bundle splitter  OpenCTIConnectorHelper.split_stix2_bundle*)
(*   - bundle submission           OpenCTIConnectorHelper.send_stix2_bundle *)
(*   - the stream consumer         ListenStream.run                         *)
(*   - the queue consumer          ListenQueue.run / _process_message /     *)
(*                                 _data_handler                            *)
(* Each component has its own specification over the shared variables:     *)
(*   Spec        the splitter (sequential calls on one helper)             *)
(*   SpecSend    send_stix2_bundle                                         *)
(*   SpecStream  the stream consumer                                       *)
(*   SpecQueue   the queue consumer and its worker thread                  *)
(***************************************************************************)
EXTENDS Integers, Sequences, FiniteSets, TLC

VARIABLES
    \* ---- splitter (helper fields and the call in progress) ----
    bundle,        \* the argument of the split call under study
    cache_index,   \* self.cache_index, as left by the last call
    cache_added,   \* self.cache_added, as left by the last call
    result,        \* what the last call on `bundle` returned or raised
    first_result,  \* what the first call on `bundle` returned or raised
    calls,         \* number of split calls made on the helper so far
    \* ---- send_stix2_bundle ----
    send_args,     \* the bundle and keyword arguments of the call, and the helper's settings
    send_pc,       \* "off", "idle", "publish" (in the enumerate loop) or "done"
    send_bundles,  \* the local list `bundles`
    send_sequence, \* the loop's `sequence`
    send_rejects,  \* publishes the broker has refused so far
    send_log,      \* calls made on the API client and the channel, in order
    send_outcome,  \* what the call returned or raised
    \* ---- helper state and ListenStream ----
    connector_state,  \* helper.connector_state: a str (JSON text) or None
    start_timestamp,  \* ListenStream.start_timestamp
    feed,             \* the events the SSE client will deliver, in order
    stream_pc,        \* "off", "start", "loop", "callback", "ended", "stopped", "killed"
    stream_pos,       \* number of events the feed has delivered to the loop
    stream_todo,      \* what the loop body still does for the current event
    stream_exit,      \* ListenStream.exit
    stream_initial,   \* connector_state when the loop was entered
    stream_calls,     \* positions of the events the callback was invoked with
    stream_returned,  \* positions of the events whose callback has returned
    stream_writes,    \* positions of the events whose id was checkpointed
    stream_config,    \* url, token, live_stream_id given to listen_stream; the configured id
    stream_request,   \* the stream id and the from parameter of the request made, or None
    \* ---- ListenQueue ----
    queue,         \* the messages the broker holds for the connector, oldest first
    run_pc,        \* ListenQueue.run: "off", "check", "consuming", "processing", "backoff", "exited", "interrupted"
    exit_event,    \* ListenQueue.exit_event is set
    workers,       \* the threads started by _process_message, in order, each with the
                   \* calls it has made; the last one is self.thread
    work_id,       \* helper.work_id
    api_log,       \* the consumer thread's calls on the channel and on work.ping, in order
    run_errors,    \* causes of the exceptions caught by run()'s `except Exception`
    stop_pc,       \* ListenQueue.stop(): "idle", "joining" or "returned"
    stop_thread,   \* the worker stop() found in self.thread (0: None)
    \* ---- PingAlive ----
    ping_pc,          \* PingAlive.ping: "off", "loop", "pinging" or "exited"
    ping_exit,        \* PingAlive.exit_event is set
    ping_in_error,    \* PingAlive.in_error
    ping_iterations,  \* iterations of the loop made so far
    ping_last,        \* the last iteration: its snapshot, the remote state it decoded,
                      \* and the state it logged after a reset
    \* ---- check_max_tlp ----
    tlp_calls,        \* the calls made so far: arguments and outcome, in order
    \* ---- split calls running at the same time on one helper ----
    threads,          \* per thread: its bundle, where its call is, its local `bundles`
    \* ---- the polling loop of _process_message, second by second ----
    poll_pc,          \* "off", "loop", "done" (worker ended), "failed" (work.ping raised)
    poll_work_id,     \* helper.work_id
    time_wait,        \* the local time_wait
    seconds,          \* time.sleep(1) calls completed since the worker was started
    pings,            \* the value of `seconds` at each work.ping call, in order
    \* ---- OpenCTIConnectorHelper.stop ----
    helper_pc         \* "off", "ready", then the statement stop() is at, "unregistered",
                      \* or "raised" (stop() ended by an exception)

splitVars == <<bundle, cache_index, cache_added, result, first_result, calls>>

sendVars == <<send_args, send_pc, send_bundles, send_sequence, send_rejects, send_log,
              send_outcome>>

streamVars == <<connector_state, start_timestamp, feed, stream_pc, stream_pos, stream_todo,
                stream_exit, stream_initial, stream_calls, stream_returned, stream_writes,
                stream_config, stream_request>>

queueVars == <<queue, run_pc, exit_event, workers, work_id, api_log, run_errors, stop_pc,
               stop_thread>>

pingVars == <<ping_pc, ping_exit, ping_in_error, ping_iterations, ping_last>>

tlpVars == <<tlp_calls>>

threadVars == <<threads>>

pollVars == <<poll_pc, poll_work_id, time_wait, seconds, pings>>

helperVars == <<helper_pc>>

vars == <<splitVars, sendVars, streamVars, queueVars, pingVars, tlpVars, threadVars, pollVars,
          helperVars>>

\* What the actions of one component leave alone.
notSplit == <<pollVars, threadVars, sendVars, streamVars, queueVars, pingVars, tlpVars,
               helperVars>>
notSend == <<pollVars, threadVars, splitVars, streamVars, queueVars, pingVars, tlpVars,
              helperVars>>
notStream == <<pollVars, threadVars, splitVars, sendVars, queueVars, pingVars, tlpVars,
                helperVars>>
notQueue == <<pollVars, threadVars, splitVars, sendVars, streamVars, pingVars, tlpVars,
               helperVars>>
notPing == <<splitVars, sendVars, queueVars, tlpVars, threadVars, pollVars,
              helperVars>>
notTlp == <<splitVars, sendVars, streamVars, queueVars, pingVars, threadVars, pollVars,
             helperVars>>
notThreads == <<sendVars, streamVars, queueVars, pingVars, tlpVars, pollVars,
                 helperVars>>
notPoll == <<splitVars, sendVars, streamVars, queueVars, pingVars, tlpVars, threadVars,
              helperVars>>

(***************************************************************************)
(* Python values                                                           *)
(***************************************************************************)
\* An absent key of a STIX object ("created_by_ref" not in item).
NoRef == "absent"

\* Python's None.
None == "None"

\* Python's `x in list`.
InList(x, list) == \E k \in 1..Len(list) : list[k] = x

\* The ids of a list of objects, in order.
IdsOf(items) == [k \in 1..Len(items) |-> items[k].id]

\* No exception / the exceptions the splitter can end in.
NoError == "none"

\* Result of a helper that returns a list or raises.
Returned(items) == [raised |-> NoError, items |-> items]
Raised(exc) == [raised |-> exc, items |-> <<>>]

(***************************************************************************)
(* STIX objects of the model's input bundles                               *)
(***************************************************************************)
Obj(id, type, object_refs, source_ref, target_ref, created_by_ref, object_marking_refs) ==
    [id |-> id, type |-> type, object_refs |-> object_refs,
     source_ref |-> source_ref, target_ref |-> target_ref,
     created_by_ref |-> created_by_ref, object_marking_refs |-> object_marking_refs]

Entity(id, created_by_ref, object_marking_refs) ==
    Obj(id, "identity", <<>>, NoRef, NoRef, created_by_ref, object_marking_refs)

Report(id, object_refs, created_by_ref, object_marking_refs) ==
    Obj(id, "report", object_refs, NoRef, NoRef, created_by_ref, object_marking_refs)

Relationship(id, source_ref, target_ref, created_by_ref, object_marking_refs) ==
    Obj(id, "relationship", <<>>, source_ref, target_ref, created_by_ref, object_marking_refs)

(***************************************************************************)
(* The splitter's helpers                                                  *)
(***************************************************************************)
\* stix2_deduplicate_objects: first occurrence of each id wins, order kept.
RECURSIVE DedupFrom(_, _, _, _)
DedupFrom(items, k, ids, final_items) ==
    IF k > Len(items) THEN final_items
    ELSE IF ~InList(items[k].id, ids)
         THEN DedupFrom(items, k + 1, Append(ids, items[k].id), Append(final_items, items[k]))
         ELSE DedupFrom(items, k + 1, ids, final_items)

Mut_stix2_deduplicate_objects(items) == items

stix2_deduplicate_objects(items) == DedupFrom(items, 1, <<>>, <<>>)

\* stix2_create_bundle: the envelope around the items, with a fresh id
\* (uuid.uuid4: here the number of the call and of the sub-bundle in it).
stix2_create_bundle(items, uuid) ==
    [type |-> "bundle", id |-> uuid, spec_version |-> "2.0", objects |-> items]

\* The marking objects of item that are in the index, in list order.
RECURSIVE MarkingsFrom(_, _, _)
MarkingsFrom(index, refs, k) ==
    IF k > Len(refs) THEN <<>>
    ELSE (IF refs[k] \in DOMAIN index THEN <<index[refs[k]]>> ELSE <<>>)
         \o MarkingsFrom(index, refs, k + 1)

\* stix2_get_embedded_objects: the dict it returns. created_by_ref is None
\* (the empty sequence here) or the one resolved object.
stix2_get_embedded_objects(index, item) ==
    [object_marking_refs |-> MarkingsFrom(index, item.object_marking_refs, 1),
     created_by_ref |->
        IF item.created_by_ref # NoRef /\ item.created_by_ref \in DOMAIN index
        THEN <<index[item.created_by_ref]>> ELSE <<>>]

Mut_stix2_get_entity_objects(index, entity) ==
    Returned(<<entity>> \o stix2_get_embedded_objects(index, entity).object_marking_refs)

\* stix2_get_entity_objects: the entity, its created_by_ref, its markings.
stix2_get_entity_objects(index, entity) ==
    LET embedded_objects == stix2_get_embedded_objects(index, entity)
    IN  Returned(<<entity>> \o embedded_objects.created_by_ref
                            \o embedded_objects.object_marking_refs)

\* stix2_get_relationship_objects: the relationship, its endpoints in the
\* index, then embedded_objects["created_by"]: a key the dict returned by
\* stix2_get_embedded_objects does not have, so the lookup raises KeyError.
stix2_get_relationship_objects(index, relationship) ==
    LET items == <<relationship>>
            \o (IF relationship.source_ref \in DOMAIN index
                THEN <<index[relationship.source_ref]>> ELSE <<>>)
            \o (IF relationship.target_ref \in DOMAIN index
                THEN <<index[relationship.target_ref]>> ELSE <<>>)
        embedded_objects == stix2_get_embedded_objects(index, relationship)
    IN  IF "created_by" \in DOMAIN embedded_objects
        THEN Returned(items \o embedded_objects["created_by"]
                            \o embedded_objects.object_marking_refs)
        ELSE Raised("KeyError: 'created_by'")

\* The closure of one item of a report's list (lines 959-962).
ExpandItem(index, item) ==
    IF item.type = "relationship"
    THEN stix2_get_relationship_objects(index, item)
    ELSE stix2_get_entity_objects(index, item)

\* items.append(self.cache_index[object_ref]) for each ref; KeyError on a
\* ref that is not in the index.
RECURSIVE ResolveRefs(_, _, _)
ResolveRefs(index, refs, k) ==
    IF k > Len(refs) THEN Returned(<<>>)
    ELSE IF refs[k] \notin DOMAIN index THEN Raised("KeyError: object_ref")
    ELSE LET rest == ResolveRefs(index, refs, k + 1)
         IN  IF rest.raised # NoError THEN rest
             ELSE Returned(<<index[refs[k]]>> \o rest.items)

\* Most iterations the model follows the loop of stix2_get_report_objects
\* for: past them the call is recorded as not ending.
MaxWalk == 6

NoEnd == "does not end"

Mut_LoopList(walked, items) == items

\* The list the loop `for item in items: items = items + ...` walks: the
\* list object bound to `items` when the loop started. The rebinding inside
\* the body makes a new list, so the expansions are appended, not walked.
LoopList(walked, items) == walked

RECURSIVE ExpandAll(_, _, _, _)
ExpandAll(index, walked, k, items) ==
    IF k > Len(LoopList(walked, items)) THEN Returned(items)
    ELSE IF k > MaxWalk THEN Raised(NoEnd)
    ELSE LET more == ExpandItem(index, LoopList(walked, items)[k])
         IN  IF more.raised # NoError THEN more
             ELSE ExpandAll(index, walked, k + 1, items \o more.items)

\* stix2_get_report_objects
stix2_get_report_objects(index, report) ==
    LET refs == ResolveRefs(index, report.object_refs, 1)
    IN  IF refs.raised # NoError THEN refs
        ELSE LET items == <<report>> \o refs.items
             IN  ExpandAll(index, items, 1, items)

(***************************************************************************)
(* split_stix2_bundle                                                      *)
(***************************************************************************)
\* An input of the splitter: the JSON text, as what json.loads makes of it
\* (json_ok = FALSE: the text is not JSON).
Bundle(objects) == [json_ok |-> TRUE, objects |-> objects]
NotJson == [json_ok |-> FALSE, objects |-> <<>>]

\* self.cache_index = {} and self.cache_added = [] at the start of a call.
Mut_ResetCacheAdded(previous) == previous

ResetCacheAdded(previous) == <<>>

ResetCacheIndex(previous) == <<>>

\* for item in bundle_data["objects"]: self.cache_index[item["id"]] = item
RECURSIVE IndexObjects(_, _, _)
IndexObjects(objects, k, index) ==
    IF k > Len(objects) THEN index
    ELSE IndexObjects(objects, k + 1,
            [i \in (DOMAIN index) \cup {objects[k].id} |->
                IF i = objects[k].id THEN objects[k] ELSE index[i]])

\* The state a call carries through its three loops.
\* Emit: dedupe the closure, record the ids, append the new sub-bundle.
Emit(st, closure) ==
    IF closure.raised # NoError
    THEN [st EXCEPT !.raised = closure.raised]
    ELSE LET items_to_send == stix2_deduplicate_objects(closure.items)
         IN  [st EXCEPT !.cache_added = st.cache_added \o IdsOf(items_to_send),
                        !.bundles = Append(st.bundles,
                                           stix2_create_bundle(items_to_send,
                                               <<st.call, Len(st.bundles) + 1>>))]

\* The guards of the three loops (lines 841, 851, 861).
ReportGuard(st, item) == item.type = "report"

RelationshipGuard(st, item) ==
    item.type = "relationship" /\ ~InList(item.id, st.cache_added)

Mut_EntityGuard(st, item) == item.type # "relationship"

EntityGuard(st, item) ==
    item.type # "relationship" /\ ~InList(item.id, st.cache_added)

\* One iteration of each loop.
ReportStep(st, item) ==
    IF ReportGuard(st, item)
    THEN Emit(st, stix2_get_report_objects(st.cache_index, item)) ELSE st

RelationshipStep(st, item) ==
    IF RelationshipGuard(st, item)
    THEN Emit(st, stix2_get_relationship_objects(st.cache_index, item)) ELSE st

EntityStep(st, item) ==
    IF EntityGuard(st, item)
    THEN Emit(st, stix2_get_entity_objects(st.cache_index, item)) ELSE st

\* The three loops; an exception leaves the loop (and the call) at once.
RECURSIVE ReportPass(_, _, _)
ReportPass(objects, k, st) ==
    IF k > Len(objects) \/ st.raised # NoError THEN st
    ELSE ReportPass(objects, k + 1, ReportStep(st, objects[k]))

RECURSIVE RelationshipPass(_, _, _)
RelationshipPass(objects, k, st) ==
    IF k > Len(objects) \/ st.raised # NoError THEN st
    ELSE RelationshipPass(objects, k + 1, RelationshipStep(st, objects[k]))

RECURSIVE EntityPass(_, _, _)
EntityPass(objects, k, st) ==
    IF k > Len(objects) \/ st.raised # NoError THEN st
    ELSE EntityPass(objects, k + 1, EntityStep(st, objects[k]))

\* split_stix2_bundle(bundle) on a helper whose fields are old_index and
\* old_added: the fields it leaves, the list it returns or what it raises.
split_stix2_bundle(b, old_index, old_added, call) ==
    LET reset == [cache_index |-> ResetCacheIndex(old_index),
                  cache_added |-> ResetCacheAdded(old_added),
                  bundles |-> <<>>, raised |-> NoError, call |-> call]
    IN  IF ~b.json_ok
        THEN [reset EXCEPT !.raised = "Exception"]
        ELSE LET indexed == [reset EXCEPT
                                !.cache_index = IndexObjects(b.objects, 1, reset.cache_index)]
             IN  EntityPass(b.objects, 1,
                     RelationshipPass(b.objects, 1,
                         ReportPass(b.objects, 1, indexed)))

(***************************************************************************)
(* Input bundles                                                           *)
(***************************************************************************)
\* Largest number of objects in a generated bundle, and of calls in a run.
MaxObjs == 3
MaxCalls == 3

IdNames == <<"A", "B", "C", "D", "E", "F", "G", "H">>

\* An id that no object of the bundle has.
Dangling == "Z"

\* The ids around position i of a bundle of n objects (cyclically).
NextId(i, n) == IdNames[(i % n) + 1]
PrevId(i, n) == IdNames[((i + n - 2) % n) + 1]
AllIds(n) == [k \in 1..n |-> IdNames[k]]
OtherIds(i, n) == SelectSeq(AllIds(n), LAMBDA x : x # IdNames[i])

\* The objects the generated bundles put at position i of n.
Variants(i, n) ==
    LET me == IdNames[i]
        nxt == NextId(i, n)
        prv == PrevId(i, n)
    IN  { Entity(me, NoRef, <<>>),
          Entity(me, nxt, <<>>),
          Entity(me, NoRef, <<prv>>),
          Entity(me, nxt, <<prv, Dangling>>),
          Report(me, <<>>, Dangling, <<>>),
          Report(me, <<nxt>>, NoRef, <<>>),
          Report(me, OtherIds(i, n), prv, <<>>),
          Report(me, <<nxt, Dangling>>, NoRef, <<>>),
          Report(me, AllIds(n), NoRef, <<nxt>>),
          Relationship(me, prv, nxt, NoRef, <<>>),
          Relationship(me, Dangling, nxt, nxt, <<prv>>) }

\* The bundles of n objects whose first k positions are filled.
RECURSIVE ObjectLists(_, _)
ObjectLists(k, n) ==
    IF k = 0 THEN { <<>> }
    ELSE { Append(objs, v) : objs \in ObjectLists(k - 1, n), v \in Variants(k, n) }

GeneratedBundles ==
    UNION { { Bundle(objs) : objs \in ObjectLists(n, n) } : n \in 0..MaxObjs }

\* The bundle of the worked example: report R lists relationship X (A to B)
\* and entity C; relationship Y (D to E) is listed by nothing.
ExampleObjects ==
    <<Report("R", <<"X", "C">>, NoRef, <<>>),
      Relationship("X", "A", "B", NoRef, <<>>),
      Entity("A", NoRef, <<>>), Entity("B", NoRef, <<>>), Entity("C", NoRef, <<>>),
      Relationship("Y", "D", "E", NoRef, <<>>),
      Entity("D", NoRef, <<>>), Entity("E", NoRef, <<>>)>>

ExampleBundle == Bundle(ExampleObjects)

\* The same objects with the entities first and the report last.
ExampleBundleReversed ==
    Bundle([k \in 1..Len(ExampleObjects) |-> ExampleObjects[Len(ExampleObjects) + 1 - k]])

\* Bundles split on the helper between the calls under study: one that
\* returns and one that raises after its report loop has recorded ids.
PriorPlain ==
    Bundle(<<Entity("A", NoRef, <<>>), Entity("B", NoRef, <<>>),
             Entity("C", NoRef, <<>>), Entity("D", NoRef, <<>>)>>)

PriorRaising ==
    Bundle(<<Report("A", <<"B">>, NoRef, <<>>), Entity("B", NoRef, <<>>),
             Relationship("C", "A", "B", NoRef, <<>>)>>)

OtherBundles == {PriorPlain, PriorRaising}

Bundles == GeneratedBundles \cup {ExampleBundle, ExampleBundleReversed, NotJson}

(***************************************************************************)
(* The splitter's specification: calls on one helper, one after the other  *)
(***************************************************************************)
\* No call on `bundle` has been made yet.
NoCall == [raised |-> "nocall", bundles |-> <<>>]

\* What the caller of a split call gets: the list, or the exception.
Outcome(st) ==
    [raised |-> st.raised, bundles |-> IF st.raised = NoError THEN st.bundles ELSE <<>>]

\* The other components are not running.
SendOff ==
    /\ send_args = <<>>
    /\ send_pc = "off"
    /\ send_bundles = <<>>
    /\ send_sequence = 0
    /\ send_rejects = 0
    /\ send_log = <<>>
    /\ send_outcome = [kind |-> "none", bundles |-> <<>>]

\* A value of connector_state and of get_state(): None, a dict, or the str
\* holding the JSON text of a value (json.dumps); "" is the str holding no JSON.
PyNone == [kind |-> "None"]
PyDict(d) == [kind |-> "dict", dict |-> d]
PyStr(v) == [kind |-> "str", of |-> v]
EmptyStr == PyStr([kind |-> "no JSON"])

\* ListenStream is not started.
\* The arguments of listen_stream that shape the request, and the stream id
\* of the connector's configuration (helper.connect_live_stream_id).
StreamConfig(url, token, passed_id, configured_id) ==
    [url |-> url, token |-> token, live_stream_id |-> passed_id,
     connect_live_stream_id |-> configured_id]

StreamIdle ==
    /\ start_timestamp = None
    /\ feed = <<>>
    /\ stream_pc = "off"
    /\ stream_pos = 0
    /\ stream_todo = <<>>
    /\ stream_exit = FALSE
    /\ stream_initial = PyNone
    /\ stream_calls = <<>>
    /\ stream_returned = <<>>
    /\ stream_writes = <<>>
    /\ stream_config = StreamConfig(None, None, None, None)
    /\ stream_request = None

StreamOff ==
    /\ connector_state = PyNone
    /\ StreamIdle

QueueOff ==
    /\ queue = <<>>
    /\ run_pc = "off"
    /\ exit_event = FALSE
    /\ workers = <<>>
    /\ work_id = None
    /\ api_log = <<>>
    /\ run_errors = <<>>
    /\ stop_pc = "idle"
    /\ stop_thread = 0

\* No iteration of PingAlive.ping has been made.
NoPing ==
    [outcome |-> "none", snapshot |-> PyNone, remote |-> PyNone, logged |-> PyNone,
     reply |-> PyNone, logs |-> <<>>, by |-> "none", pings |-> 0]

PingOff ==
    /\ ping_pc = "off"
    /\ ping_exit = FALSE
    /\ ping_in_error = FALSE
    /\ ping_iterations = 0
    /\ ping_last = NoPing

\* check_max_tlp has not been called.
TlpOff == tlp_calls = <<>>

\* No split calls run side by side.
ThreadsOff == threads = <<>>

\* No polling loop is followed second by second.
PollOff ==
    /\ poll_pc = "off"
    /\ poll_work_id = None
    /\ time_wait = 0
    /\ seconds = 0
    /\ pings = <<>>

\* stop() of the helper is not followed.
HelperOff == helper_pc = "off"

Init ==
    /\ HelperOff
    /\ bundle \in Bundles
    /\ cache_index = <<>>
    /\ cache_added = <<>>
    /\ result = NoCall
    /\ first_result = NoCall
    /\ calls = 0
    /\ SendOff
    /\ StreamOff
    /\ QueueOff
    /\ PingOff
    /\ TlpOff
    /\ ThreadsOff
    /\ PollOff

\* helper.split_stix2_bundle(bundle)
SplitBundle ==
    /\ calls < MaxCalls
    /\ LET st == split_stix2_bundle(bundle, cache_index, cache_added, calls + 1)
       IN  /\ cache_index' = st.cache_index
           /\ cache_added' = st.cache_added
           /\ result' = Outcome(st)
           /\ first_result' = IF first_result = NoCall THEN Outcome(st) ELSE first_result
    /\ calls' = calls + 1
    /\ UNCHANGED <<bundle, notSplit>>

\* helper.split_stix2_bundle(other): a call on another bundle in between
SplitOther ==
    /\ calls < MaxCalls
    /\ \E other \in OtherBundles :
         LET st == split_stix2_bundle(other, cache_index, cache_added, calls + 1)
         IN  /\ cache_index' = st.cache_index
             /\ cache_added' = st.cache_added
    /\ calls' = calls + 1
    /\ UNCHANGED <<bundle, result, first_result, notSplit>>

Next == SplitBundle \/ SplitOther

Spec == Init /\ [][Next]_vars

(***************************************************************************)
(* Claims about the splitter                                               *)
(***************************************************************************)
\* A call on `bundle` has been made / has returned a list.
Called == result # NoCall
ReturnedList == Called /\ result.raised = NoError

\* The objects of sub-bundle k of the returned list, and their ids.
SubObjects(k) == result.bundles[k].objects
SubIds(k) == IdsOf(SubObjects(k))
SubIdSet(k) == {SubIds(k)[j] : j \in 1..Len(SubIds(k))}
InputObjects == {bundle.objects[i] : i \in 1..Len(bundle.objects)}
InputIds == {o.id : o \in InputObjects}
OutputObjects ==
    UNION { {SubObjects(k)[j] : j \in 1..Len(SubObjects(k))} : k \in 1..Len(result.bundles) }

\* C1: every call on a bundle returns sub-bundles whose objects, taken
\* together and deduplicated by id, are exactly the objects of the input:
\* none is missing and none was added.
C1_OutputIsInput ==
    (Called /\ bundle.json_ok) =>
        /\ result.raised = NoError
        /\ OutputObjects = InputObjects

\* C2: in the list a call returns, no id is in more than one sub-bundle and
\* every object of the input is in exactly one sub-bundle.
C2_ExactlyOneSubBundle ==
    ReturnedList =>
        /\ \A k1, k2 \in 1..Len(result.bundles) :
               k1 # k2 => SubIdSet(k1) \cap SubIdSet(k2) = {}
        /\ \A id \in InputIds :
               Cardinality({k \in 1..Len(result.bundles) : id \in SubIdSet(k)}) = 1

\* C3: the worked example (report R listing relationship X and entity C,
\* with the loose relationship Y) splits into exactly two sub-bundles,
\* {R, X, A, B, C} and then {Y, D, E}.
C3_WorkedExample ==
    (Called /\ bundle \in {ExampleBundle, ExampleBundleReversed}) =>
        /\ result.raised = NoError
        /\ Len(result.bundles) = 2
        /\ SubIdSet(1) = {"R", "X", "A", "B", "C"}
        /\ SubIdSet(2) = {"Y", "D", "E"}

\* The first occurrences of the elements of a sequence, in order.
FirstOccurrences(seq) ==
    LET keep == {p \in 1..Len(seq) : \A q \in 1..(p - 1) : seq[q] # seq[p]}
    IN  [j \in 1..Cardinality(keep) |->
            seq[CHOOSE p \in keep : Cardinality({q \in keep : q <= p}) = j]]

\* The ids a remainder sub-bundle seeded by o is made of: o, the object its
\* created_by_ref names and the objects its object_marking_refs name, as far
\* as the input has them, each once.
RemainderIds(o) ==
    FirstOccurrences(
        SelectSeq(<<o.id>> \o (IF o.created_by_ref = NoRef THEN <<>> ELSE <<o.created_by_ref>>)
                           \o o.object_marking_refs,
                  LAMBDA id : id \in InputIds))

\* The sub-bundles of the remainder pass are those seeded by an object that
\* is neither a report nor a relationship.
IsRemainderSeed(o) == o.type \notin {"report", "relationship"}
RemainderSubs == {k \in 1..Len(result.bundles) : IsRemainderSeed(SubObjects(k)[1])}
SeededBy(o) == {k \in 1..Len(result.bundles) : SubObjects(k)[1] = o}

\* Object i of the input was emitted before the remainder pass reached it:
\* by a report or relationship sub-bundle, or by the remainder sub-bundle of
\* an earlier object.
EmittedBefore(i) ==
    \E k \in 1..Len(result.bundles) :
        /\ bundle.objects[i].id \in SubIdSet(k)
        /\ \/ k \notin RemainderSubs
           \/ \E h \in 1..(i - 1) : SubObjects(k)[1] = bundle.objects[h]

\* C5: every object that is neither a relationship nor already emitted
\* seeds one remainder sub-bundle, made of the object, then the object of its
\* created_by_ref, then the objects of its object_marking_refs (those the
\* bundle has); a bundle of one plain object gives one sub-bundle holding it.
C5_RemainderPass ==
    ReturnedList =>
        /\ \A k \in RemainderSubs :
               /\ SubIds(k) = RemainderIds(SubObjects(k)[1])
               /\ \A j \in 1..Len(SubObjects(k)) : SubObjects(k)[j] \in InputObjects
        /\ \A i \in 1..Len(bundle.objects) :
               IsRemainderSeed(bundle.objects[i]) =>
                   Cardinality(SeededBy(bundle.objects[i])) =
                       (IF EmittedBefore(i) THEN 0 ELSE 1)
        /\ (bundle = Bundle(<<Entity("A", NoRef, <<>>)>>)) =>
               (Len(result.bundles) = 1 /\ SubObjects(1) = <<Entity("A", NoRef, <<>>)>>)

\* C5 witness: a returned list whose remainder sub-bundle holds an object,
\* its created_by_ref object and a marking object, after an earlier
\* sub-bundle, while another plain object of the input seeds none.
C5_Witness ==
    /\ ReturnedList
    /\ \E k \in RemainderSubs : k > 1 /\ Len(SubObjects(k)) = 3
    /\ \E i \in 1..Len(bundle.objects) :
           IsRemainderSeed(bundle.objects[i]) /\ SeededBy(bundle.objects[i]) = {}

\* What two results must share: the exception, or the ids of each
\* sub-bundle in order (the envelope ids are left out).
Structure(r) ==
    [raised |-> r.raised,
     ids |-> [k \in 1..Len(r.bundles) |-> IdsOf(r.bundles[k].objects)]]

\* C6: every call on the same helper with the same bundle gives what the
\* first call gave (same number of sub-bundles, same ids in the same order),
\* whatever was split on the helper before or in between.
C6_SameResultEachCall == Called => Structure(result) = Structure(first_result)

\* C6 witness: another bundle was split first, then the bundle twice; both
\* calls returned two or more sub-bundles, whose envelope ids differ.
C6_Witness ==
    /\ calls = 3
    /\ ReturnedList
    /\ Len(result.bundles) >= 2
    /\ first_result.bundles[1].id[1] = 2
    /\ result.bundles[1].id[1] = 3
    /\ result.bundles # first_result.bundles

\* The pass an object is a seed of: 1 reports, 2 relationships, 3 the rest.
PassOf(o) == CASE o.type = "report" -> 1 [] o.type = "relationship" -> 2 [] OTHER -> 3

\* The place in the input of the first object of sub-bundle k (0: not an
\* object of the input).
SeedPosition(k) ==
    IF \E i \in 1..Len(bundle.objects) : bundle.objects[i] = SubObjects(k)[1]
    THEN CHOOSE i \in 1..Len(bundle.objects) : bundle.objects[i] = SubObjects(k)[1]
    ELSE 0

\* Sub-bundle k is made before the passes come to object i of the input.
MadeBeforeTurnOf(k, i) ==
    \/ PassOf(SubObjects(k)[1]) < PassOf(bundle.objects[i])
    \/ /\ PassOf(SubObjects(k)[1]) = PassOf(bundle.objects[i])
       /\ SeedPosition(k) < i

\* The order of a returned list: every sub-bundle starts with an object of
\* the input, its seed; the seeds are the reports, then relationships, then
\* other objects, each kind in source order; every report is a seed, and a
\* relationship or other object is a seed exactly when no sub-bundle made
\* before its turn holds it.
SubBundleOrder ==
    /\ \A k \in 1..Len(result.bundles) : SeedPosition(k) # 0
    /\ \A k1, k2 \in 1..Len(result.bundles) :
           k1 < k2 => MadeBeforeTurnOf(k1, SeedPosition(k2))
    /\ \A i \in 1..Len(bundle.objects) :
           LET emitted == \E k \in 1..Len(result.bundles) :
                              /\ MadeBeforeTurnOf(k, i)
                              /\ bundle.objects[i].id \in SubIdSet(k)
           IN  Cardinality({k \in 1..Len(result.bundles) : SeedPosition(k) = i}) =
                   (IF PassOf(bundle.objects[i]) = 1 \/ ~emitted THEN 1 ELSE 0)

\* C18: a call on a bundle returns a list ordered as: one sub-bundle per
\* report in source order, then one per relationship not yet emitted in
\* source order, then one per remaining object not yet emitted in source
\* order, each sub-bundle starting with its seed.
C18_SubBundleOrder ==
    (Called /\ bundle.json_ok) => (result.raised = NoError /\ SubBundleOrder)

\* The ids an object references, in any of its reference fields.
ReferencedIds(o) ==
    {o.object_refs[j] : j \in 1..Len(o.object_refs)}
      \cup {o.object_marking_refs[j] : j \in 1..Len(o.object_marking_refs)}
      \cup ({o.source_ref, o.target_ref, o.created_by_ref} \ {NoRef})

\* C19: in a returned list, every object of the input that an object of
\* sub-bundle k references (object_refs, source_ref, target_ref,
\* created_by_ref, object_marking_refs) is in sub-bundle k or in an earlier one.
C19_ReferencedNoLater ==
    ReturnedList =>
        \A k \in 1..Len(result.bundles) :
            \A j \in 1..Len(SubObjects(k)) :
                \A id \in ReferencedIds(SubObjects(k)[j]) \cap InputIds :
                    \E h \in 1..k : id \in SubIdSet(h)

\* Some object of the bundle references an id that no object has.
HasDanglingRef ==
    \E i \in 1..Len(bundle.objects) : ReferencedIds(bundle.objects[i]) \ InputIds # {}

\* The bundle has no relationship (the relationship pass fails with or
\* without a dangling reference).
NoRelationship == \A i \in 1..Len(bundle.objects) : bundle.objects[i].type # "relationship"

\* C20: a reference to an id that no object of the bundle has never makes
\* the call fail: on a bundle of reports and entities with a dangling id in
\* object_refs, created_by_ref or object_marking_refs the call returns a
\* list, and every object of the bundle is in it.
C20_DanglingTolerated ==
    (Called /\ bundle.json_ok /\ HasDanglingRef /\ NoRelationship) =>
        /\ result.raised = NoError
        /\ \A id \in InputIds : \E k \in 1..Len(result.bundles) : id \in SubIdSet(k)

\* The ids a relationship sub-bundle seeded by o is made of: o, its
\* source_ref and target_ref objects, its created_by_ref object and its
\* object_marking_refs objects, as far as the input has them, each once.
RelationshipIds(o) ==
    FirstOccurrences(
        SelectSeq(<<o.id, o.source_ref, o.target_ref, o.created_by_ref>> \o o.object_marking_refs,
                  LAMBDA id : id \in InputIds))

\* The bundle has no report: every relationship is left to the relationship pass.
NoReport == \A i \in 1..Len(bundle.objects) : bundle.objects[i].type # "report"

\* C21: on a bundle without reports the call returns a list in which every
\* relationship not emitted before its turn seeds one sub-bundle, made of
\* the relationship, its endpoints that are in the index and its resolvable
\* created_by_ref and object_marking_refs objects; a relationship with both
\* endpoints absent is emitted with its resolvable parts only.
C21_RelationshipPass ==
    (Called /\ bundle.json_ok /\ NoReport) =>
        /\ result.raised = NoError
        /\ \A i \in 1..Len(bundle.objects) :
               LET o == bundle.objects[i]
                   emitted == \E k \in 1..Len(result.bundles) :
                                  MadeBeforeTurnOf(k, i) /\ o.id \in SubIdSet(k)
               IN  (o.type = "relationship" /\ ~emitted) =>
                       \E k \in 1..Len(result.bundles) :
                           SeedPosition(k) = i /\ SubIds(k) = RelationshipIds(o)

\* C22: every call ends, by returning a list or by raising: the loop of
\* stix2_get_report_objects makes one iteration for the report and one for
\* each of its object_refs and no more, also when the references form a cycle.
C22_SplitTerminates ==
    Called =>
        /\ result.raised # NoEnd
        /\ first_result.raised # NoEnd

\* C22 witness: a report that lists itself and an entity, the entity naming
\* the report as its created_by_ref and the report marked with the entity,
\* was split into a list.
C22_Witness ==
    /\ ReturnedList
    /\ bundle = Bundle(<<Report("A", <<"A", "B">>, NoRef, <<"B">>), Entity("B", "A", <<>>)>>)
    /\ Len(result.bundles) = 1
    /\ SubIds(1) = <<"A", "B">>

(***************************************************************************)
(* send_stix2_bundle                                                       *)
(***************************************************************************)
\* Largest number of objects in a submitted bundle, and of refused publishes.
MaxSendObjs == 2
MaxRejects == 2

\* A keyword argument that was not passed.
NotPassed == "not passed"

\* The splitter is not running.
SplitOff ==
    /\ bundle = NotJson
    /\ cache_index = <<>>
    /\ cache_added = <<>>
    /\ result = NoCall
    /\ first_result = NoCall
    /\ calls = 0

\* The calls of the model: the bundle (by its number of objects), the
\* keyword arguments, helper.work_id and helper.connect_validate_before_import.
SendArgs ==
    [objects : 0..MaxSendObjs,
     work_id : {NotPassed, None, "work-1"},
     file_name : {None, "bundle.json"},
     bypass_split : BOOLEAN,
     bypass_validation : BOOLEAN,
     self_work_id : {None, "work-0"},
     connect_validate_before_import : BOOLEAN]

\* OpenCTIStix2Splitter.split_bundle: the lists it can return for a bundle
\* of n objects. No object gives no sub-bundle; otherwise every object is in
\* one sub-bundle, so there are between 1 and n of them (numbered here).
split_bundle(n) == { [k \in 1..m |-> k] : m \in (IF n = 0 THEN {0} ELSE 1..n) }

\* bundles = [bundle]: the bundle as submitted, as one unit.
WholeBundle == 0

\* work_id = kwargs.get("work_id", self.work_id)
Send_work_id(args) ==
    IF args.work_id = NotPassed THEN args.self_work_id ELSE args.work_id

\* if not file_name and work_id: file_name = f"{work_id}.json"
Send_file_name(args) ==
    IF args.file_name = None /\ Send_work_id(args) # None
    THEN "work.json" ELSE args.file_name

\* if self.connect_validate_before_import and not bypass_validation and file_name
UploadsPendingFile(args) ==
    /\ args.connect_validate_before_import
    /\ ~args.bypass_validation
    /\ Send_file_name(args) # None

Mut_NothingToImport(bundles) == Len(bundles) < 0

\* if len(bundles) == 0: raise ValueError("Nothing to import")
NothingToImport(bundles) == Len(bundles) = 0

\* An entry of the log: the call, its sequence number or count, its bundle.
LogEntry(op, n, what) == [op |-> op, n |-> n, what |-> what]

Mut_RegisterExpectations(id, bundles) ==
    IF id # None
    THEN [k \in 1..Len(bundles) |-> LogEntry("add_expectations", 1, WholeBundle)]
    ELSE <<>>

\* if work_id: self.api.work.add_expectations(work_id, len(bundles))
RegisterExpectations(id, bundles) ==
    IF id # None
    THEN <<LogEntry("add_expectations", Len(bundles), WholeBundle)>>
    ELSE <<>>

SendReturned(bundles) == [kind |-> "returned", bundles |-> bundles]
SendRaised(exc) == [kind |-> exc, bundles |-> <<>>]

InitSend ==
    /\ HelperOff
    /\ SplitOff
    /\ StreamOff
    /\ QueueOff
    /\ PingOff
    /\ TlpOff
    /\ ThreadsOff
    /\ PollOff
    /\ send_args \in SendArgs
    /\ send_pc = "idle"
    /\ send_bundles = <<>>
    /\ send_sequence = 0
    /\ send_rejects = 0
    /\ send_log = <<>>
    /\ send_outcome = [kind |-> "none", bundles |-> <<>>]

\* send_stix2_bundle up to the publish loop: the pending-file upload, the
\* split, the empty check, add_expectations and the channel.
SendCall ==
    /\ send_pc = "idle"
    /\ IF UploadsPendingFile(send_args)
       THEN /\ send_log' = Append(send_log, LogEntry("upload_pending_file", 0, WholeBundle))
            /\ send_outcome' = SendReturned(<<>>)
            /\ send_pc' = "done"
            /\ UNCHANGED <<send_bundles, send_sequence>>
       ELSE \E bundles \in (IF send_args.bypass_split THEN {<<WholeBundle>>}
                            ELSE split_bundle(send_args.objects)) :
              /\ send_bundles' = bundles
              /\ IF NothingToImport(bundles)
                 THEN /\ send_outcome' = SendRaised("ValueError: Nothing to import")
                      /\ send_pc' = "done"
                      /\ UNCHANGED <<send_log, send_sequence>>
                 ELSE /\ send_log' = send_log \o RegisterExpectations(Send_work_id(send_args),
                                                                      bundles)
                      /\ send_sequence' = 1
                      /\ send_pc' = "publish"
                      /\ UNCHANGED send_outcome
    /\ UNCHANGED <<send_args, send_rejects, notSend>>

\* _send_bundle: basic_publish accepted; after the last one, channel.close()
\* and return bundles.
PublishAccepted ==
    /\ send_pc = "publish"
    /\ send_log' = Append(send_log,
                          LogEntry("basic_publish", send_sequence, send_bundles[send_sequence]))
    /\ IF send_sequence = Len(send_bundles)
       THEN /\ send_pc' = "done"
            /\ send_outcome' = SendReturned(send_bundles)
            /\ UNCHANGED send_sequence
       ELSE /\ send_sequence' = send_sequence + 1
            /\ UNCHANGED <<send_pc, send_outcome>>
    /\ UNCHANGED <<send_args, send_bundles, send_rejects, notSend>>

\* except (UnroutableError, NackError): self._send_bundle(channel, bundle,
\* **kwargs) (lines 809-811): the publish loop stays at the same bundle and
\* the same sequence number.
Mut_retry(sequence, count) ==
    IF sequence = count THEN [pc |-> "done", sequence |-> sequence]
    ELSE [pc |-> "publish", sequence |-> sequence + 1]
retry(sequence, count) == [pc |-> "publish", sequence |-> sequence]

\* _send_bundle: basic_publish raised UnroutableError or NackError; the
\* error is logged and _send_bundle calls itself with the same arguments.
PublishRejected ==
    /\ send_pc = "publish"
    /\ send_rejects < MaxRejects
    /\ send_rejects' = send_rejects + 1
    /\ send_log' = Append(send_log,
                          LogEntry("rejected", send_sequence, send_bundles[send_sequence]))
    /\ send_pc' = retry(send_sequence, Len(send_bundles)).pc
    /\ send_sequence' = retry(send_sequence, Len(send_bundles)).sequence
    /\ UNCHANGED <<send_args, send_bundles, send_outcome, notSend>>

NextSend == SendCall \/ PublishAccepted \/ PublishRejected

SpecSend == InitSend /\ [][NextSend]_vars

\* A publish reached the broker (accepted or not).
Published == \E k \in 1..Len(send_log) : send_log[k].op \in {"basic_publish", "rejected"}

LogPositions(op) == {k \in 1..Len(send_log) : send_log[k].op = op}

\* The accepted publishes, in the order they were made.
RECURSIVE AcceptedFrom(_)
AcceptedFrom(k) ==
    IF k > Len(send_log) THEN <<>>
    ELSE IF send_log[k].op = "basic_publish"
    THEN <<send_log[k]>> \o AcceptedFrom(k + 1)
    ELSE AcceptedFrom(k + 1)

\* C15: a call with a work id that goes on to publish has called
\* add_expectations exactly once, as the first call of all, with the number
\* of sub-bundles; the accepted publishes carry action_sequence 1, 2, ... and
\* the sub-bundle at that place of the list, and they are all n of them when
\* the call has returned the list.
C15_ExpectationsThenOrderedPublishes ==
    LET accepted == AcceptedFrom(1)
        published == send_pc = "publish" \/ (send_pc = "done" /\ send_bundles # <<>>
                                                /\ send_outcome.kind = "returned")
    IN  /\ (Send_work_id(send_args) # None /\ published) =>
              /\ LogPositions("add_expectations") = {1}
              /\ send_log[1].n = Len(send_bundles)
        /\ (Send_work_id(send_args) = None \/ ~published) =>
              LogPositions("add_expectations") = {}
        /\ \A k \in 1..Len(accepted) :
              /\ accepted[k].n = k
              /\ accepted[k].what = send_bundles[k]
        /\ Len(accepted) <= Len(send_bundles)
        /\ (send_pc = "done" /\ published) =>
              /\ Len(accepted) = Len(send_bundles)
              /\ send_outcome = SendReturned(send_bundles)

\* C15 witness: a call with a work id has registered two expectations and
\* published two sub-bundles, the second after a refused publish.
C15_Witness ==
    /\ send_args.work_id = "work-1"
    /\ send_pc = "done"
    /\ Len(send_bundles) = 2
    /\ send_log = <<LogEntry("add_expectations", 2, WholeBundle),
                    LogEntry("basic_publish", 1, send_bundles[1]),
                    LogEntry("rejected", 2, send_bundles[2]),
                    LogEntry("basic_publish", 2, send_bundles[2])>>

\* The publishes of the call, accepted or rejected, in the order made.
RECURSIVE PublishesFrom(_)
PublishesFrom(k) ==
    IF k > Len(send_log) THEN <<>>
    ELSE IF send_log[k].op \in {"basic_publish", "rejected"}
    THEN <<send_log[k]>> \o PublishesFrom(k + 1)
    ELSE PublishesFrom(k + 1)

json_dumps(value) == PyStr(value)

\* json.loads(text) succeeds on a str that holds JSON text.
json_loads_ok(text) == text.kind = "str" /\ text.of.kind # "no JSON"
json_loads(text) == text.of

\* helper.set_state(state): self.connector_state = json.dumps(state)
set_state(state) == json_dumps(state)

\* helper.get_state() on self.connector_state = cs: the decoded state when
\* it is a non-empty dict, otherwise (and on any exception) None.
get_state(cs) ==
    IF cs # PyNone /\ cs # EmptyStr /\ json_loads_ok(cs)
       /\ json_loads(cs).kind = "dict" /\ DOMAIN json_loads(cs).dict # {}
    THEN json_loads(cs) ELSE PyNone

\* state[key] = value on a dict.
DictSet(d, key, value) ==
    [k \in (DOMAIN d) \cup {key} |-> IF k = key THEN value ELSE d[k]]

(***************************************************************************)
(* ListenStream                                                            *)
(***************************************************************************)
\* Longest generated feed.
MaxFeed == 3

\* An SSE message: msg.event and msg.id (None when the event has no id).
Msg(event, id) == [event |-> event, id |-> id]

EventTypes == {"heartbeat", "connected", "sync", "create"}

\* The id an event at position i of a generated feed carries, if any.
EventIds == <<"1-0", "2-0", "3-0", "4-0", "5-0">>

RECURSIVE FeedsOfLength(_)
FeedsOfLength(n) ==
    IF n = 0 THEN { <<>> }
    ELSE { Append(f, Msg(t, id)) :
             f \in FeedsOfLength(n - 1), t \in EventTypes, id \in {None, EventIds[n]} }

\* The feed of the worked example, without and with a heartbeat in it.
ExampleFeed == <<Msg("create", "10-0"), Msg("sync", "10-0"), Msg("create", "11-0")>>
ExampleFeedHeartbeat ==
    <<Msg("create", "10-0"), Msg("heartbeat", "10-5"), Msg("sync", "10-0"),
      Msg("create", "11-0")>>

Feeds == UNION { FeedsOfLength(n) : n \in 0..MaxFeed } \cup {ExampleFeed, ExampleFeedHeartbeat}

\* f"{self.start_timestamp}-0"
TimestampCursor(ts) == IF ts = "1700000000000" THEN "1700000000000-0" ELSE "?-0"

\* What the connector has stored when the stream starts: nothing, an empty
\* str, a state with a cursor (alone or with another key), a state without.
StoredStates ==
    { PyNone, EmptyStr,
      PyStr(PyDict([connectorLastEventId |-> "-"])),
      PyStr(PyDict([connectorLastEventId |-> "0-0", last_run |-> "yesterday"])),
      PyStr(PyDict([last_run |-> "yesterday"])) }

\* str(msg.id): msg.id is a str already.
str(id) == id

Mut_EventProgram_SyncCallback(msg) ==
    IF msg.event = "heartbeat" \/ msg.event = "connected" THEN <<>>
    ELSE <<"callback">> \o (IF msg.id # None THEN <<"checkpoint">> ELSE <<>>)

Mut_EventProgram_HeartbeatCheckpoint(msg) ==
    IF msg.event = "connected" THEN <<>>
    ELSE IF msg.event = "sync" \/ msg.event = "heartbeat"
    THEN (IF msg.id # None THEN <<"checkpoint">> ELSE <<>>)
    ELSE <<"callback">> \o (IF msg.id # None THEN <<"checkpoint">> ELSE <<>>)

Mut_EventProgram_CheckpointFirst(msg) ==
    IF msg.event = "heartbeat" \/ msg.event = "connected" THEN <<>>
    ELSE IF msg.event = "sync"
    THEN (IF msg.id # None THEN <<"checkpoint">> ELSE <<>>)
    ELSE (IF msg.id # None THEN <<"checkpoint">> ELSE <<>>) \o <<"callback">>

\* The body of the loop for one message that passed the exit check (lines
\* 396-408): what it does, in order.
EventProgram(msg) ==
    IF msg.event = "heartbeat" \/ msg.event = "connected" THEN <<>>
    ELSE IF msg.event = "sync"
    THEN (IF msg.id # None THEN <<"checkpoint">> ELSE <<>>)
    ELSE <<"callback">> \o (IF msg.id # None THEN <<"checkpoint">> ELSE <<>>)

\* Whether run() takes the remote branch (line 301).
IsRemote(config) == config.url # None /\ config.token # None

\* The stream id put in the URL path, None for the global feed (lines
\* 303-308 and 353-357).
live_stream_uri(config) ==
    IF IsRemote(config)
    THEN IF config.live_stream_id # None THEN config.live_stream_id
         ELSE config.connect_live_stream_id
    ELSE config.connect_live_stream_id

\* Whether the from parameter is built the way of a specific stream (lines
\* 310-313 and 358).
SpecificStream(config) ==
    IF IsRemote(config)
    THEN config.live_stream_id # None \/ config.connect_live_stream_id # None
    ELSE config.connect_live_stream_id # None

\* The value of the from parameter of the URL, Omitted when the URL has
\* none (lines 314-325 and 359-370).
Omitted == "omitted"
live_stream_from(config, cursor) ==
    IF SpecificStream(config)
    THEN IF cursor # "-" THEN cursor ELSE Omitted
    ELSE IF cursor # "-" THEN cursor ELSE "0"

InitStream ==
    /\ HelperOff
    /\ SplitOff
    /\ SendOff
    /\ QueueOff
    /\ PingOff
    /\ TlpOff
    /\ ThreadsOff
    /\ PollOff
    /\ connector_state \in StoredStates
    /\ start_timestamp \in {None, "", "1700000000000"}
    /\ (connector_state # PyNone => start_timestamp = None)
    /\ feed \in Feeds
    /\ stream_pc = "start"
    /\ stream_pos = 0
    /\ stream_todo = <<>>
    /\ stream_exit = FALSE
    /\ stream_initial = PyNone
    /\ stream_calls = <<>>
    /\ stream_returned = <<>>
    /\ stream_writes = <<>>
    /\ stream_config = StreamConfig(None, None, None, None)
    /\ stream_request = None

\* run() up to the loop: load the state, or make and store the first one;
\* then current_state["connectorLastEventId"] is read for the URL, which
\* raises KeyError on a stored state without the key. Any exception of run()
\* goes to sys.excepthook, which kills the process.
StreamStart ==
    /\ stream_pc = "start"
    /\ LET loaded == get_state(connector_state)
           current_state ==
               IF loaded = PyNone
               THEN PyDict([connectorLastEventId |->
                       IF start_timestamp # None /\ start_timestamp # ""
                       THEN TimestampCursor(start_timestamp) ELSE "-"])
               ELSE loaded
           stored == IF loaded = PyNone THEN set_state(current_state) ELSE connector_state
       IN  /\ connector_state' = stored
           /\ stream_initial' = stored
           /\ IF "connectorLastEventId" \in DOMAIN current_state.dict
              THEN /\ stream_pc' = "loop"
                   /\ stream_request' =
                          [uri |-> live_stream_uri(stream_config),
                           from |-> live_stream_from(stream_config,
                                       current_state.dict["connectorLastEventId"])]
              ELSE /\ stream_pc' = "killed"
                   /\ UNCHANGED stream_request
    /\ UNCHANGED <<start_timestamp, feed, stream_pos, stream_todo, stream_exit,
                   stream_calls, stream_returned, stream_writes, stream_config, notStream>>

\* if self.exit: break (lines 394-395), the first statement of the loop
\* body: with the flag set the loop is left and nothing is done for msg.
Mut_exit_check(exit, msg) == [pc |-> "loop", todo |-> EventProgram(msg)]
exit_check(exit, msg) ==
    IF exit THEN [pc |-> "stopped", todo |-> <<>>]
    ELSE [pc |-> "loop", todo |-> EventProgram(msg)]

\* for msg in messages: if self.exit: break; otherwise the branch on
\* msg.event decides what is done for this message.
Deliver ==
    /\ stream_pc = "loop"
    /\ stream_todo = <<>>
    /\ stream_pos < Len(feed)
    /\ stream_pos' = stream_pos + 1
    /\ stream_pc' = exit_check(stream_exit, feed[stream_pos + 1]).pc
    /\ stream_todo' = exit_check(stream_exit, feed[stream_pos + 1]).todo
    /\ UNCHANGED <<connector_state, start_timestamp, feed, stream_exit, stream_initial,
                   stream_calls, stream_returned, stream_writes, stream_config, stream_request, notStream>>

\* The feed closes: the for loop ends and run() returns.
FeedClosed ==
    /\ stream_pc = "loop"
    /\ stream_todo = <<>>
    /\ stream_pos = Len(feed)
    /\ stream_pc' = "ended"
    /\ UNCHANGED <<connector_state, start_timestamp, feed, stream_pos, stream_todo,
                   stream_exit, stream_initial, stream_calls, stream_returned,
                   stream_writes, stream_config, stream_request, notStream>>

\* self.callback(msg) is entered.
CallbackInvoke ==
    /\ stream_pc = "loop"
    /\ stream_todo # <<>> /\ Head(stream_todo) = "callback"
    /\ stream_pc' = "callback"
    /\ stream_calls' = Append(stream_calls, stream_pos)
    /\ UNCHANGED <<connector_state, start_timestamp, feed, stream_pos, stream_todo,
                   stream_exit, stream_initial, stream_returned, stream_writes, stream_config, stream_request, notStream>>

\* self.callback(msg) returns.
CallbackReturn ==
    /\ stream_pc = "callback"
    /\ stream_pc' = "loop"
    /\ stream_todo' = Tail(stream_todo)
    /\ stream_returned' = Append(stream_returned, stream_pos)
    /\ UNCHANGED <<connector_state, start_timestamp, feed, stream_pos, stream_exit,
                   stream_initial, stream_calls, stream_writes, stream_config, stream_request, notStream>>

\* Where an exception of self.callback(msg) takes run(): out of the loop body
\* and the loop, to the except of line 409; what was left to do for the
\* event is not done.
Mut_callback_raises(todo) == [pc |-> "loop", todo |-> Tail(todo)]
callback_raises(todo) == [pc |-> "killed", todo |-> todo]

\* self.callback(msg) raises: run()'s bare except hands it to
\* sys.excepthook, which kills the process.
CallbackRaise ==
    /\ stream_pc = "callback"
    /\ stream_pc' = callback_raises(stream_todo).pc
    /\ stream_todo' = callback_raises(stream_todo).todo
    /\ UNCHANGED <<connector_state, start_timestamp, feed, stream_pos,
                   stream_exit, stream_initial, stream_calls, stream_returned,
                   stream_writes, stream_config, stream_request, notStream>>

\* state = get_state(); state["connectorLastEventId"] = str(msg.id);
\* set_state(state). Item assignment on None raises TypeError.
Checkpoint ==
    /\ stream_pc = "loop"
    /\ stream_todo # <<>> /\ Head(stream_todo) = "checkpoint"
    /\ LET state == get_state(connector_state)
       IN  IF state = PyNone
           THEN /\ stream_pc' = "killed"
                /\ UNCHANGED <<connector_state, stream_todo, stream_writes>>
           ELSE /\ connector_state' =
                      set_state(PyDict(DictSet(state.dict, "connectorLastEventId",
                                               str(feed[stream_pos].id))))
                /\ stream_todo' = Tail(stream_todo)
                /\ stream_writes' = Append(stream_writes, stream_pos)
                /\ UNCHANGED stream_pc
    /\ UNCHANGED <<start_timestamp, feed, stream_pos, stream_exit, stream_initial,
                   stream_calls, stream_returned, stream_config, stream_request, notStream>>

\* ListenStream.stop(), from another thread.
StreamStop ==
    /\ stream_pc \in {"start", "loop", "callback"}
    /\ ~stream_exit
    /\ stream_exit' = TRUE
    /\ UNCHANGED <<connector_state, start_timestamp, feed, stream_pc, stream_pos,
                   stream_todo, stream_initial, stream_calls, stream_returned,
                   stream_writes, stream_config, stream_request, notStream>>

NextStream ==
    \/ StreamStart
    \/ Deliver
    \/ FeedClosed
    \/ CallbackInvoke
    \/ CallbackReturn
    \/ CallbackRaise
    \/ Checkpoint
    \/ StreamStop

SpecStream == InitStream /\ [][NextStream]_vars

\* The ways listen_stream can be called on a connector: url and token given
\* or not, a stream id passed or not, and a stream id configured or not.
StreamConfigs ==
    { StreamConfig(url, token, passed_id, configured_id) :
        url \in {None, "https://remote"}, token \in {None, "token"},
        passed_id \in {None, "passed-stream"},
        configured_id \in {None, "configured-stream"} }

\* The start of a consumer, for every way of calling listen_stream, on a
\* feed that closes at once.
InitRequest ==
    /\ HelperOff
    /\ SplitOff
    /\ SendOff
    /\ QueueOff
    /\ PingOff
    /\ TlpOff
    /\ ThreadsOff
    /\ PollOff
    /\ connector_state \in StoredStates
    /\ start_timestamp \in {None, "", "1700000000000"}
    /\ feed = <<>>
    /\ stream_pc = "start"
    /\ stream_pos = 0
    /\ stream_todo = <<>>
    /\ stream_exit = FALSE
    /\ stream_initial = PyNone
    /\ stream_calls = <<>>
    /\ stream_returned = <<>>
    /\ stream_writes = <<>>
    /\ stream_config \in StreamConfigs
    /\ stream_request = None

NextRequest == StreamStart \/ FeedClosed

SpecRequest == InitRequest /\ [][NextRequest]_vars

(***************************************************************************)
(* Claims about the stream consumer                                        *)
(***************************************************************************)
\* The positions of a feed whose event goes to the user callback.
IsCallbackEvent(msg) == msg.event \notin {"heartbeat", "connected", "sync"}
CallbackPositions(f) ==
    SelectSeq([k \in 1..Len(f) |-> k], LAMBDA k : IsCallbackEvent(f[k]))

IsPrefix(a, b) == Len(a) <= Len(b) /\ \A k \in 1..Len(a) : a[k] = b[k]

\* C7: the callback is invoked once for each event that is not a heartbeat,
\* connected or sync event, in feed order, and for no other event: at every
\* moment the invocations are a prefix of those events, and they are all of
\* them when the feed has been read to its end.
C7_CallbackPerDataEvent ==
    /\ IsPrefix(stream_calls, CallbackPositions(feed))
    /\ stream_pc = "ended" => stream_calls = CallbackPositions(feed)
    /\ (stream_pc = "ended" /\ feed = ExampleFeed) => stream_calls = <<1, 3>>

\* C7 witness: the example feed with the heartbeat was read to its end, with
\* two invocations.
C7_Witness ==
    /\ stream_pc = "ended"
    /\ feed = ExampleFeedHeartbeat
    /\ stream_calls = <<1, 4>>

\* The events the loop has dealt with at a point between two events.
BetweenEvents ==
    \/ stream_pc \in {"ended", "stopped"}
    \/ stream_pc = "loop" /\ stream_todo = <<>>
Processed == IF stream_pc = "stopped" THEN stream_pos - 1 ELSE stream_pos

\* The positions, among the first n, of the events that move the cursor.
MovesCursor(msg) == msg.id # None /\ msg.event \notin {"heartbeat", "connected"}
CursorPositions(n) == {k \in 1..n : MovesCursor(feed[k])}
LastCursorPosition(n) == CHOOSE k \in CursorPositions(n) : \A j \in CursorPositions(n) : j <= k

\* C8: between two events the state is the state the loop started with,
\* with connectorLastEventId replaced by the id of the last processed event
\* that has an id and is no heartbeat or connected event (unchanged when
\* there is none): heartbeat, connected and id-less events change nothing.
C8_CursorIsLastProcessedId ==
    BetweenEvents =>
        get_state(connector_state) =
            IF CursorPositions(Processed) = {}
            THEN get_state(stream_initial)
            ELSE PyDict(DictSet(get_state(stream_initial).dict, "connectorLastEventId",
                                feed[LastCursorPosition(Processed)].id))

\* C8 witness: after an event that moved the cursor, a heartbeat with an id
\* of its own has been processed, and the state also holds another key.
C8_Witness ==
    /\ stream_pc = "loop" /\ stream_todo = <<>>
    /\ stream_pos >= 2
    /\ feed[stream_pos].event = "heartbeat" /\ feed[stream_pos].id # None
    /\ CursorPositions(stream_pos) # {}
    /\ "last_run" \in DOMAIN get_state(connector_state).dict

\* C9: a checkpoint for an event is written only after the callback for
\* that event has returned (or the event is a sync event), and the cursor
\* holds the cursor the loop started with or the id of such an event.
C9_CheckpointAfterCallback ==
    /\ \A k \in 1..Len(stream_writes) :
           \/ feed[stream_writes[k]].event = "sync"
           \/ InList(stream_writes[k], stream_returned)
    /\ stream_pc \notin {"start", "killed"} =>
           \/ get_state(connector_state) = get_state(stream_initial)
           \/ \E k \in 1..stream_pos :
                  /\ feed[k].id # None
                  /\ get_state(connector_state).dict["connectorLastEventId"] = feed[k].id
                  /\ \/ feed[k].event = "sync"
                     \/ InList(k, stream_returned)

\* C9 witness: the callback of the second event is running while the cursor
\* holds the id of the first, whose callback has returned.
C9_Witness ==
    /\ stream_pc = "callback"
    /\ stream_pos = 2
    /\ feed[2].id # None
    /\ stream_returned = <<1>>
    /\ stream_writes = <<1>>
    /\ get_state(connector_state).dict["connectorLastEventId"] = feed[1].id

\* The events whose callback was entered and left without returning.
RaisedOn ==
    {n \in 1..Len(feed) :
        /\ InList(n, stream_calls)
        /\ ~InList(n, stream_returned)
        /\ ~(stream_pc = "callback" /\ stream_pos = n)}

\* The state the loop leaves when the first n events have been processed.
StateAfter(n) ==
    IF CursorPositions(n) = {}
    THEN get_state(stream_initial)
    ELSE PyDict(DictSet(get_state(stream_initial).dict, "connectorLastEventId",
                        feed[LastCursorPosition(n)].id))

\* C24: when the callback raised on event N the consumer has terminated: N
\* is the last event taken from the feed and the last one the callback was
\* invoked for, no checkpoint was written for N, and the stored state is the
\* one left by the events before N, its cursor the last id checkpointed
\* before N.
C24_CallbackRaiseTerminates ==
    \A n \in RaisedOn :
        /\ stream_pc = "killed"
        /\ stream_pos = n
        /\ stream_calls[Len(stream_calls)] = n
        /\ ~InList(n, stream_writes)
        /\ get_state(connector_state) = StateAfter(n - 1)

\* C24 witness: the callback raised on the second event, which has an id,
\* after the first event was checkpointed, and a third event is in the feed.
C24_Witness ==
    /\ RaisedOn = {2}
    /\ Len(feed) = 3
    /\ feed[2].id # None
    /\ stream_writes = <<1>>
    /\ get_state(connector_state).dict["connectorLastEventId"] = feed[1].id

\* The loop was left on the event at stream_pos with nothing done for it.
LeftOnExit ==
    /\ stream_pc = "stopped"
    /\ ~InList(stream_pos, stream_calls)
    /\ ~InList(stream_pos, stream_writes)

\* C26: with the exit flag set, the step that takes the next event from the
\* feed leaves the loop, with no callback invocation and no checkpoint for
\* that event; after the loop was left, on the flag or because the feed
\* closed, no event is taken, no callback invoked and no checkpoint written.
C26_StopLeavesAtNextEvent ==
    [][/\ (stream_exit /\ stream_pos' # stream_pos) => LeftOnExit'
       /\ stream_pc \in {"stopped", "ended"} =>
              /\ stream_pos' = stream_pos
              /\ stream_calls' = stream_calls
              /\ stream_writes' = stream_writes
              /\ connector_state' = connector_state]_vars

\* C26 witness: stop() was called after the first event was processed, and
\* the loop was left on the second event, which has an id and is an event
\* for the callback, while a third event is still in the feed.
C26_Witness ==
    /\ LeftOnExit
    /\ stream_pos = 2
    /\ Len(feed) = 3
    /\ IsCallbackEvent(feed[2]) /\ feed[2].id # None
    /\ stream_calls = <<1>>
    /\ stream_writes = <<1>>

\* The cursor the consumer starts from.
ResumeCheckpoint == get_state(stream_initial).dict["connectorLastEventId"]

\* A stream id is configured or was passed to listen_stream.
HasStreamId(config) ==
    config.live_stream_id # None \/ config.connect_live_stream_id # None

\* C25: in the step that builds the request, with no stored state the
\* checkpoint is the start timestamp followed by "-0" when a non-empty start
\* timestamp was given and "-" otherwise; with a stream id configured or
\* passed the from parameter is the checkpoint, omitted when it is "-";
\* without one it is the checkpoint, "0" when it is "-"; whether or not url
\* and token were given.
C25_ResumeCursor ==
    [][(stream_pc = "start" /\ stream_pc' = "loop") =>
          /\ get_state(connector_state) = PyNone =>
                 ResumeCheckpoint' =
                     IF start_timestamp # None /\ start_timestamp # ""
                     THEN TimestampCursor(start_timestamp) ELSE "-"
          /\ HasStreamId(stream_config) =>
                 stream_request'.from =
                     IF ResumeCheckpoint' = "-" THEN Omitted ELSE ResumeCheckpoint'
          /\ ~HasStreamId(stream_config) =>
                 stream_request'.from =
                     IF ResumeCheckpoint' = "-" THEN "0" ELSE ResumeCheckpoint']_vars

(***************************************************************************)
(* ListenQueue: run, _process_message, _data_handler, stop                 *)
(***************************************************************************)
\* Most messages in the broker's queue, and exceptions run() catches in
\* one behaviour.
MaxMsgs == 2
MaxRunErrors == 1

\* A message body: text that json.loads rejects, or a document whose
\* internal.work_id is None or a work id.
BadBody == [json_ok |-> FALSE, work_id |-> None]
Body(id) == [json_ok |-> TRUE, work_id |-> id]
MessageBodies == {BadBody, Body(None), Body("work-1")}

RECURSIVE QueuesOfLength(_)
QueuesOfLength(n) ==
    IF n = 0 THEN { <<>> }
    ELSE { Append(q, b) : q \in QueuesOfLength(n - 1), b \in MessageBodies }

Queues == UNION { QueuesOfLength(n) : n \in 0..MaxMsgs }

\* A recorded call: its work id, its is_error argument, and whether it
\* returned (ok) or raised.
Call(op, id, is_error, ok) ==
    [op |-> op, work_id |-> id, is_error |-> is_error, ok |-> ok]

\* threading.Thread.is_alive() of a started thread.
is_alive(worker) == worker.pc \notin {"done", "unhandled"}

Mut_data_handler_next(pc, ok) ==
    CASE pc = "to_received" -> IF ok THEN "callback" ELSE "report_error"
      [] pc = "callback" -> IF ok THEN "to_processed" ELSE "done"
      [] pc = "to_processed" -> IF ok THEN "done" ELSE "report_error"
      [] pc = "report_error" -> "done"

Mut_data_handler_next_NoErrorReport(pc, ok) ==
    CASE pc = "to_received" -> IF ok THEN "callback" ELSE "report_error"
      [] pc = "callback" -> IF ok THEN "to_processed" ELSE "report_error"
      [] pc = "to_processed" -> "done"
      [] pc = "report_error" -> "done"

\* _data_handler's try statement (lines 169-180): where the worker goes
\* after the call at pc returned (ok) or raised. The `except Exception` takes
\* a failure of to_received, the callback or to_processed to the error
\* report; the bare except around the error report only logs.
data_handler_next(pc, ok) ==
    CASE pc = "to_received" -> IF ok THEN "callback" ELSE "report_error"
      [] pc = "callback" -> IF ok THEN "to_processed" ELSE "report_error"
      [] pc = "to_processed" -> IF ok THEN "done" ELSE "report_error"
      [] pc = "report_error" -> "done"

\* A call of the worker: a recorded call with the message it was given
\* (None for the callback, which is given the event) and its outcome, the
\* value returned or the text of the exception raised.
WorkerCallOf(op, id, is_error, ok, message, outcome) ==
    [op |-> op, work_id |-> id, is_error |-> is_error, ok |-> ok,
     message |-> message, outcome |-> outcome]

\* What the user callback returns, and str(e) of what a call raises.
CallbackReturnValue == "bundles sent"
ExceptionText(op) == <<"error in", op>>

Mut_data_handler_call(pc, id, ok, previous) ==
    LET outcome(op) == IF ok THEN None ELSE ExceptionText(op)
    IN  CASE pc = "to_received" ->
                WorkerCallOf("to_received", id, FALSE, ok,
                             "Connector ready to process the operation",
                             outcome("to_received"))
          [] pc = "callback" ->
                WorkerCallOf("callback", id, FALSE, ok, None,
                             IF ok THEN CallbackReturnValue ELSE ExceptionText("callback"))
          [] pc = "to_processed" ->
                WorkerCallOf("to_processed", id, FALSE, ok,
                             "Connector ready to process the operation",
                             outcome("to_processed"))
          [] pc = "report_error" ->
                WorkerCallOf("to_processed", id, TRUE, ok,
                             previous[Len(previous)].outcome, outcome("to_processed"))

\* The call the worker makes at pc, after the calls in `previous`:
\* to_received(work_id, "Connector ready ..."), message = callback(event),
\* to_processed(work_id, message), to_processed(work_id, str(e), True).
data_handler_call(pc, id, ok, previous) ==
    LET outcome(op) == IF ok THEN None ELSE ExceptionText(op)
    IN  CASE pc = "to_received" ->
                WorkerCallOf("to_received", id, FALSE, ok,
                             "Connector ready to process the operation",
                             outcome("to_received"))
          [] pc = "callback" ->
                WorkerCallOf("callback", id, FALSE, ok, None,
                             IF ok THEN CallbackReturnValue ELSE ExceptionText("callback"))
          [] pc = "to_processed" ->
                WorkerCallOf("to_processed", id, FALSE, ok,
                             previous[Len(previous)].outcome, outcome("to_processed"))
          [] pc = "report_error" ->
                WorkerCallOf("to_processed", id, TRUE, ok,
                             previous[Len(previous)].outcome, outcome("to_processed"))

InitQueue ==
    /\ HelperOff
    /\ SplitOff
    /\ SendOff
    /\ StreamOff
    /\ PingOff
    /\ TlpOff
    /\ ThreadsOff
    /\ PollOff
    /\ queue \in Queues
    /\ run_pc = "check"
    /\ exit_event = FALSE
    /\ workers = <<>>
    /\ work_id = None
    /\ api_log = <<>>
    /\ run_errors = <<>>
    /\ stop_pc = "idle"
    /\ stop_thread = 0

\* while not self.exit_event.is_set() (line 183): the loop ends, or the
\* body connects and consumes.
Mut_run_check(exit) == "consuming"
run_check(exit) == IF exit THEN "exited" ELSE "consuming"

\* run(): the loop condition; then the connection, basic_consume and
\* start_consuming, which blocks delivering messages.
RunConnect ==
    /\ run_pc = "check"
    /\ run_pc' = run_check(exit_event)
    /\ UNCHANGED <<queue, exit_event, workers, work_id, api_log, run_errors, stop_pc,
                   stop_thread, notQueue>>

\* run(): connecting fails, or the connection is lost while consuming; the
\* exception is logged and the loop sleeps 10 seconds.
RunConnectionError ==
    /\ \/ run_pc = "check" /\ ~exit_event
       \/ run_pc = "consuming"
    /\ Len(run_errors) < MaxRunErrors
    /\ run_errors' = Append(run_errors, "connection")
    /\ run_pc' = "backoff"
    /\ UNCHANGED <<queue, exit_event, workers, work_id, api_log, stop_pc, stop_thread, notQueue>>

\* run(): KeyboardInterrupt or SystemExit is raised while connecting or in
\* start_consuming: it is logged and sys.exit(0) ends run() (lines 203-205).
RunInterrupt ==
    /\ \/ run_pc = "check" /\ ~exit_event
       \/ run_pc = "consuming"
    /\ run_pc' = "interrupted"
    /\ UNCHANGED <<queue, exit_event, workers, work_id, api_log, run_errors, stop_pc,
                   stop_thread, notQueue>>

\* time.sleep(10) ends.
RunBackoffOver ==
    /\ run_pc = "backoff"
    /\ run_pc' = "check"
    /\ UNCHANGED <<queue, exit_event, workers, work_id, api_log, run_errors, stop_pc,
                   stop_thread, notQueue>>

Mut_process_message_calls(body) ==
    <<Call("start", body.work_id, FALSE, TRUE), Call("basic_ack", body.work_id, FALSE, TRUE)>>

\* _process_message, lines 137-139, after json.loads returned: the calls the
\* consumer thread makes, in order: basic_ack, then the worker thread is
\* created and started.
process_message_calls(body) ==
    <<Call("basic_ack", body.work_id, FALSE, TRUE), Call("start", body.work_id, FALSE, TRUE)>>

\* Whether a sequence of calls starts a worker thread.
StartsWorker(cs) == \E k \in 1..Len(cs) : cs[k].op = "start"

\* _process_message, lines 136-139, on the oldest message: json.loads;
\* basic_ack; the worker thread is created and started. When json.loads
\* raises, the message has not been acknowledged (it stays with the broker)
\* and the exception leaves start_consuming. (A basic_ack that raises is a
\* connection failure before the acknowledgment: RunConnectionError.)
ProcessMessage ==
    /\ run_pc = "consuming"
    /\ queue # <<>>
    /\ IF Head(queue).json_ok
       THEN LET cs == process_message_calls(Head(queue)) IN
            /\ api_log' = api_log \o cs
            /\ workers' = IF StartsWorker(cs)
                          THEN Append(workers, [pc |-> "begin",
                                                work_id |-> Head(queue).work_id,
                                                calls |-> <<>>])
                          ELSE workers
            /\ queue' = Tail(queue)
            /\ run_pc' = "processing"
            /\ UNCHANGED run_errors
       ELSE /\ Len(run_errors) < MaxRunErrors
            /\ run_errors' = Append(run_errors, "decode")
            /\ run_pc' = "backoff"
            /\ UNCHANGED <<queue, api_log, workers>>
    /\ UNCHANGED <<exit_event, work_id, stop_pc, stop_thread, notQueue>>

\* _process_message, lines 142-158: self.thread is no longer alive; the
\* handler returns to start_consuming.
ProcessMessageReturns ==
    /\ run_pc = "processing"
    /\ ~is_alive(workers[Len(workers)])
    /\ run_pc' = "consuming"
    /\ UNCHANGED <<queue, exit_event, workers, work_id, api_log, run_errors, stop_pc,
                   stop_thread, notQueue>>

\* _process_message, lines 143-147: self.thread is alive, helper.work_id is
\* set and the wait has come to five minutes: work.ping(helper.work_id)
\* raises. The exception leaves _process_message and start_consuming while
\* the worker goes on. (A ping that returns changes time_wait only; the
\* loop is followed second by second under SpecPoll.)
PingWork ==
    /\ run_pc = "processing"
    /\ is_alive(workers[Len(workers)])
    /\ work_id # None
    /\ Len(run_errors) < MaxRunErrors
    /\ api_log' = Append(api_log, Call("ping", work_id, FALSE, FALSE))
    /\ run_errors' = Append(run_errors, "ping")
    /\ run_pc' = "backoff"
    /\ UNCHANGED <<queue, exit_event, workers, work_id, stop_pc, stop_thread, notQueue>>

\* _data_handler, lines 162-167: the worker records the work id on the helper.
WorkerBegin(w) ==
    /\ workers[w].pc = "begin"
    /\ work_id' = workers[w].work_id
    /\ workers' = [workers EXCEPT ![w].pc = "to_received"]
    /\ UNCHANGED <<queue, run_pc, exit_event, api_log, run_errors, stop_pc, stop_thread, notQueue>>

\* _data_handler, lines 169-180: the next call of the worker returns or raises.
WorkerCall(w) ==
    /\ workers[w].pc \in {"to_received", "callback", "to_processed", "report_error"}
    /\ \E ok \in BOOLEAN :
         workers' = [workers EXCEPT
                        ![w].pc = data_handler_next(workers[w].pc, ok),
                        ![w].calls = Append(workers[w].calls,
                                            data_handler_call(workers[w].pc,
                                                              workers[w].work_id, ok,
                                                              workers[w].calls))]
    /\ UNCHANGED <<queue, run_pc, exit_event, work_id, api_log, run_errors, stop_pc,
                   stop_thread, notQueue>>

Mut_stop_next(thread) == "returned"

\* stop(), lines 212-213: `if self.thread: self.thread.join()`.
stop_next(thread) == IF thread # 0 THEN "joining" ELSE "returned"

\* stop(): exit_event.set(); then self.thread.join() when a worker was ever started.
QueueStop ==
    /\ stop_pc = "idle"
    /\ exit_event' = TRUE
    /\ stop_thread' = Len(workers)
    /\ stop_pc' = stop_next(Len(workers))
    /\ UNCHANGED <<queue, run_pc, workers, work_id, api_log, run_errors, notQueue>>

\* stop(): self.thread.join() returns.
QueueStopJoined ==
    /\ stop_pc = "joining"
    /\ ~is_alive(workers[stop_thread])
    /\ stop_pc' = "returned"
    /\ UNCHANGED <<queue, run_pc, exit_event, workers, work_id, api_log, run_errors,
                   stop_thread, notQueue>>

NextQueue ==
    \/ RunConnect
    \/ RunConnectionError
    \/ RunInterrupt
    \/ RunBackoffOver
    \/ ProcessMessage
    \/ ProcessMessageReturns
    \/ PingWork
    \/ \E w \in 1..Len(workers) : WorkerBegin(w)
    \/ \E w \in 1..Len(workers) : WorkerCall(w)
    \/ QueueStop
    \/ QueueStopJoined

SpecQueue == InitQueue /\ [][NextQueue]_vars

(***************************************************************************)
(* Claims about the queue consumer                                         *)
(***************************************************************************)
\* The position of the raising callback call among a worker's calls (0: none).
RaisedCallback(w) ==
    IF \E k \in 1..Len(w.calls) : w.calls[k].op = "callback" /\ ~w.calls[k].ok
    THEN CHOOSE k \in 1..Len(w.calls) : w.calls[k].op = "callback" /\ ~w.calls[k].ok
    ELSE 0

StartPositions == {k \in 1..Len(api_log) : api_log[k].op = "start"}

\* C11: every start of a worker is directly preceded by the successful
\* basic_ack of the same message, and the workers started are as many as the
\* messages acknowledged.
C11_AckBeforeWorker ==
    /\ \A k \in StartPositions :
         /\ k > 1
         /\ api_log[k - 1] = Call("basic_ack", api_log[k].work_id, FALSE, TRUE)
    /\ Len(workers) = Cardinality(StartPositions)
    /\ Len(workers) =
         Cardinality({k \in 1..Len(api_log) : api_log[k].op = "basic_ack" /\ api_log[k].ok})

\* C11 witness: the first message was acknowledged and its worker started;
\* the second could not be decoded and has neither acknowledgment nor worker.
C11_Witness ==
    /\ Len(workers) = 1
    /\ api_log = process_message_calls(Body("work-1"))
    /\ run_errors = <<"decode">>
    /\ queue = <<BadBody>>

\* The workers whose thread is alive.
AliveWorkers == {n \in 1..Len(workers) : is_alive(workers[n])}

\* C12: at every moment at most one worker thread is alive, also after
\* work.ping raised or the connection failed and run() reconnected.
C12_OneWorkerAlive == Cardinality(AliveWorkers) <= 1

\* The successful to_processed reports of a worker for its work id.
SuccessfulReports(w) ==
    {k \in 1..Len(w.calls) : /\ w.calls[k].op = "to_processed"
                             /\ w.calls[k].work_id = w.work_id
                             /\ w.calls[k].ok}

MaxIterations == 2

\* api.connector.ping raised.
ApiRaises == [kind |-> "raise"]

\* A non-empty str that is not JSON text.
NotJsonStr == [kind |-> "str", of |-> [kind |-> "no JSON"], text |-> "oops"]

\* result["connector_state"] of a ping that returned: None, "", the JSON
\* text of a state, of an empty state, or text that is not JSON.
PingReplies ==
    { PyNone, EmptyStr, NotJsonStr,
      PyStr(PyDict(<<>>)),
      PyStr(PyDict([connectorLastEventId |-> "-"])),
      PyStr(PyDict([connectorLastEventId |-> "0-0", last_run |-> "yesterday"])) }

\* The states the connector itself stores between two heartbeats.
LocalStates ==
    { PyDict([connectorLastEventId |-> "-"]), PyDict([connectorLastEventId |-> "7-0"]) }

\* What an iteration logs with logging.error, and at line 239.
ErrorPinging == "Error pinging the API"
BackToNormal == "API Ping back to normal"
RemotelyReset == "Connector state has been remotely reset"

\* An iteration whose ping call is in flight: initial_state has been read.
Pending(initial_state, by) ==
    [outcome |-> "pending", snapshot |-> initial_state, remote |-> PyNone,
     logged |-> PyNone, reply |-> PyNone, logs |-> <<>>, by |-> by, pings |-> 1]

\* Whether the except branch of the loop logs an error (lines 249-251).
logs_error(in_error) == TRUE

\* One iteration of PingAlive.ping (lines 228-251) from the reply of
\* api.connector.ping on, with initial_state read before the call and
\* connector_state = cs when the reply comes: the connector state and
\* in_error it leaves, and what it saw and logged.
ping(initial_state, cs, in_error, reply) ==
    LET failed == [connector_state |-> cs, in_error |-> TRUE,
                   last |-> [outcome |-> "error", snapshot |-> initial_state,
                             remote |-> PyNone, logged |-> PyNone, reply |-> reply,
                             logs |-> IF logs_error(in_error) THEN <<ErrorPinging>>
                                      ELSE <<>>,
                             by |-> "loop", pings |-> 1]]
    IN  IF reply = ApiRaises THEN failed
        ELSE IF reply # PyNone /\ reply # EmptyStr /\ ~json_loads_ok(reply) THEN failed
        ELSE LET remote_state == IF reply # PyNone /\ reply # EmptyStr
                                 THEN json_loads(reply) ELSE PyNone
                 differs == initial_state # remote_state
                 written == IF differs THEN set_state(reply) ELSE cs
             IN  [connector_state |-> written, in_error |-> FALSE,
                  last |-> [outcome |-> IF differs THEN "reset" ELSE "same",
                            snapshot |-> initial_state, remote |-> remote_state,
                            logged |-> get_state(written), reply |-> reply,
                            logs |-> (IF differs THEN <<RemotelyReset>> ELSE <<>>)
                                     \o (IF in_error THEN <<BackToNormal>> ELSE <<>>),
                            by |-> "loop", pings |-> 1]]

\* force_ping (lines 592-605) on connector_state = cs with the reply of its
\* first api.connector.ping, and whether the second one, made when the
\* remote state differs, returns: the connector state it leaves, what it
\* saw and logged, and the number of ping calls it made.
force_ping(cs, reply, second_ok) ==
    LET initial_state == get_state(cs)
        failed(n) == [connector_state |-> cs,
                      last |-> [outcome |-> "error", snapshot |-> initial_state,
                                remote |-> PyNone, logged |-> PyNone, reply |-> reply,
                                logs |-> <<ErrorPinging>>, by |-> "force_ping",
                                pings |-> n]]
    IN  IF reply = ApiRaises THEN failed(1)
        ELSE IF reply # PyNone /\ reply # EmptyStr /\ ~json_loads_ok(reply) THEN failed(1)
        ELSE LET remote_state == IF reply # PyNone /\ reply # EmptyStr
                                 THEN json_loads(reply) ELSE PyNone
                 differs == initial_state # remote_state
             IN  IF differs /\ ~second_ok THEN failed(2)
                 ELSE [connector_state |-> cs,
                       last |-> [outcome |-> IF differs THEN "differs" ELSE "same",
                                 snapshot |-> initial_state, remote |-> remote_state,
                                 logged |-> PyNone, reply |-> reply, logs |-> <<>>,
                                 by |-> "force_ping",
                                 pings |-> IF differs THEN 2 ELSE 1]]

InitPing ==
    /\ HelperOff
    /\ SplitOff
    /\ SendOff
    /\ QueueOff
    /\ StreamIdle
    /\ connector_state \in StoredStates
    /\ ping_pc = "loop"
    /\ ping_exit = FALSE
    /\ ping_in_error = FALSE
    /\ ping_iterations = 0
    /\ ping_last = NoPing
    /\ TlpOff
    /\ ThreadsOff
    /\ PollOff

\* The loop condition finds exit_event clear; initial_state = get_state();
\* api.connector.ping is called (lines 227-230).
PingSend ==
    /\ ping_pc = "loop"
    /\ ~ping_exit
    /\ ping_iterations < MaxIterations
    /\ ping_pc' = "pinging"
    /\ ping_last' = Pending(get_state(connector_state), "loop")
    /\ ping_iterations' = ping_iterations + 1
    /\ UNCHANGED <<ping_exit, ping_in_error>>
    /\ UNCHANGED <<notPing, streamVars>>

\* api.connector.ping returns or raises: the rest of the iteration, then
\* exit_event.wait(40).
PingIteration ==
    /\ ping_pc = "pinging"
    /\ \E reply \in PingReplies \cup {ApiRaises} :
         LET after == ping(ping_last.snapshot, connector_state, ping_in_error, reply) IN
         /\ connector_state' = after.connector_state
         /\ ping_in_error' = after.in_error
         /\ ping_last' = after.last
    /\ ping_pc' = "loop"
    /\ UNCHANGED <<ping_iterations, ping_exit>>
    /\ UNCHANGED <<notPing, start_timestamp, feed, stream_pc, stream_pos, stream_todo,
                   stream_exit, stream_initial, stream_calls, stream_returned,
                   stream_writes, stream_config, stream_request>>

\* The loop condition finds exit_event set.
PingLoopExit ==
    /\ ping_pc = "loop"
    /\ ping_exit
    /\ ping_pc' = "exited"
    /\ UNCHANGED <<ping_exit, ping_in_error, ping_iterations, ping_last>>
    /\ UNCHANGED <<notPing, streamVars>>

\* PingAlive.stop()
PingStop ==
    /\ ~ping_exit
    /\ ping_exit' = TRUE
    /\ UNCHANGED <<ping_pc, ping_in_error, ping_iterations, ping_last>>
    /\ UNCHANGED <<notPing, streamVars>>

\* The connector calls helper.force_ping() between two heartbeats.
ForcePing ==
    /\ ping_pc = "loop"
    /\ ping_iterations < MaxIterations
    /\ \E reply \in PingReplies \cup {ApiRaises}, second_ok \in BOOLEAN :
         LET after == force_ping(connector_state, reply, second_ok) IN
         /\ connector_state' = after.connector_state
         /\ ping_last' = after.last
    /\ ping_iterations' = ping_iterations + 1
    /\ UNCHANGED <<ping_pc, ping_exit, ping_in_error>>
    /\ UNCHANGED <<notPing, start_timestamp, feed, stream_pc, stream_pos, stream_todo,
                   stream_exit, stream_initial, stream_calls, stream_returned,
                   stream_writes, stream_config, stream_request>>

\* The connector stores a state of its own between two heartbeats.
LocalSetState ==
    /\ ping_pc \in {"loop", "pinging"}
    /\ \E state \in LocalStates : connector_state' = set_state(state)
    /\ connector_state' # connector_state
    /\ UNCHANGED pingVars
    /\ UNCHANGED <<notPing, start_timestamp, feed, stream_pc, stream_pos, stream_todo,
                   stream_exit, stream_initial, stream_calls, stream_returned,
                   stream_writes, stream_config, stream_request>>

NextPing ==
    \/ PingSend
    \/ PingIteration
    \/ PingLoopExit
    \/ PingStop
    \/ ForcePing
    \/ LocalSetState

SpecPing == InitPing /\ [][NextPing]_vars

\* C14: an iteration that found the remote state different from its
\* snapshot leaves a connector state that get_state() reads as that remote
\* state (the value the iteration logs at line 243).
C14_LocalStateIsRemoteAfterReset ==
    ping_last.outcome = "reset" => ping_last.logged = ping_last.remote

\* C31: when PingAlive.stop() has returned, no ping call of the heartbeat
\* loop is in flight, and the loop makes no ping afterwards.
C31_StopWaitsForIteration ==
    [][/\ ping_exit' => ping_pc' # "pinging"
       /\ ping_exit => ~(ping_pc = "loop" /\ ping_pc' = "pinging")]_vars

\* The step ends an iteration of the heartbeat loop.
IterationEnds == ping_pc = "pinging" /\ ping_pc' = "loop"
Failed(last) == last.outcome = "error"

\* C32: an iteration leaves in_error true exactly when it failed; a failure
\* logs the error only when the iteration before had not failed; a success
\* after a failure logs one back-to-normal notice, and a success after a
\* success logs none.
C32_ErrorLoggedOncePerRun ==
    [][IterationEnds =>
          /\ ping_in_error' = Failed(ping_last')
          /\ Failed(ping_last') => (InList(ErrorPinging, ping_last'.logs) <=> ~ping_in_error)
          /\ ~Failed(ping_last') =>
                 Cardinality({k \in 1..Len(ping_last'.logs) :
                                 ping_last'.logs[k] = BackToNormal})
                     = IF ping_in_error THEN 1 ELSE 0]_vars

\* The step is a call of force_ping.
ForcePingCalled == ping_last' # ping_last /\ ping_last'.by = "force_ping"

\* C33: a call of force_ping leaves the connector state one heartbeat
\* iteration leaves on the same local state and the same reply (the remote
\* state, when it differs from the local snapshot), with one ping call; when
\* it fails the error is logged.
C33_ForcePingReconciles ==
    [][ForcePingCalled =>
          /\ connector_state' =
                 ping(get_state(connector_state), connector_state, ping_in_error,
                      ping_last'.reply).connector_state
          /\ ping_last'.pings = 1
          /\ Failed(ping_last') => InList(ErrorPinging, ping_last'.logs)]_vars

\* C16: stop() sets exit_event, and it has not returned while the worker it
\* found in self.thread (the worker of the message being processed when
\* stop() was called) is alive.
C16_StopWaitsForWorker ==
    /\ stop_pc # "idle" => exit_event
    /\ (stop_pc = "returned" /\ stop_thread # 0) => ~is_alive(workers[stop_thread])
    /\ stop_pc = "joining" => stop_thread # 0

\* C16 witness: stop() was called while the worker of the first message was
\* in the callback, and it returned after that worker's success report.
C16_Witness ==
    /\ stop_pc = "returned"
    /\ stop_thread = 1
    /\ workers[1].pc = "done"
    /\ Len(workers[1].calls) = 3
    /\ run_pc = "processing"

\* C28: in the step in which the body of a message fails to decode, the
\* message is acknowledged and leaves the broker's queue (it is not
\* delivered again), and no worker is started.
C28_DecodeFailureAfterAck ==
    [][(/\ Len(run_errors') > Len(run_errors)
        /\ run_errors'[Len(run_errors')] = "decode") =>
           /\ api_log' = Append(api_log, Call("basic_ack", Head(queue).work_id, FALSE, TRUE))
           /\ queue' = Tail(queue)
           /\ workers' = workers]_vars

\* The positions of the calls of a worker that invoke the user callback.
CallbackCalls(w) == {k \in 1..Len(w.calls) : w.calls[k].op = "callback"}

\* C29: in every worker the first call is to_received(work_id); the
\* callback is invoked at most once, as the second call and only after a
\* to_received that returned; after a callback that returned the next call
\* is to_processed(work_id, <what the callback returned>) without the error
\* flag; after a to_received that raised the next call is to_processed with
\* the error flag, and the callback is not invoked.
C29_WorkerReportOrder ==
    \A w \in 1..Len(workers) :
        LET cs == workers[w].calls
            id == workers[w].work_id
        IN  /\ Len(cs) >= 1 =>
                   /\ cs[1].op = "to_received" /\ cs[1].work_id = id
                   /\ workers[w].pc \notin {"begin", "to_received"}
            /\ Len(cs) = 0 => workers[w].pc \in {"begin", "to_received"}
            /\ Cardinality(CallbackCalls(workers[w])) <= 1
            /\ CallbackCalls(workers[w]) \subseteq {2}
            /\ Len(cs) >= 2 => (cs[2].op = "callback" <=> cs[1].ok)
            /\ (Len(cs) = 1 /\ cs[1].ok) => workers[w].pc = "callback"
            /\ (Len(cs) >= 2 /\ cs[2].op = "callback" /\ cs[2].ok) =>
                   /\ Len(cs) = 2 => workers[w].pc = "to_processed"
                   /\ Len(cs) >= 3 =>
                          /\ cs[3].op = "to_processed" /\ cs[3].work_id = id
                          /\ ~cs[3].is_error
                          /\ cs[3].message = cs[2].outcome
                          /\ cs[3].message = CallbackReturnValue
            /\ (Len(cs) >= 1 /\ ~cs[1].ok) =>
                   /\ Len(cs) = 1 => workers[w].pc = "report_error"
                   /\ Len(cs) >= 2 =>
                          /\ cs[2].op = "to_processed" /\ cs[2].work_id = id
                          /\ cs[2].is_error
                          /\ cs[2].message = ExceptionText("to_received")

\* C29 witness: one worker made to_received, the callback and to_processed,
\* all three returning, and a second worker reported a to_received that
\* raised.
C29_Witness ==
    /\ Len(workers) = 2
    /\ workers[1].pc = "done" /\ Len(workers[1].calls) = 3
    /\ \A k \in 1..3 : workers[1].calls[k].ok
    /\ workers[2].pc = "done" /\ Len(workers[2].calls) = 2
    /\ ~workers[2].calls[1].ok

\* C30: a step in which run() catches an exception logs it and starts the
\* 10-second sleep; the sleep is followed by the loop condition only; at the
\* loop condition run() ends without a connection attempt when stop() was
\* signalled, and otherwise makes a connection attempt; an interrupt ends
\* run(); and once run() has ended it does nothing more.
C30_BackoffThenReconnectUnlessStopped ==
    [][/\ Len(run_errors') > Len(run_errors) => run_pc' = "backoff"
       /\ (run_pc = "backoff" /\ run_pc' # run_pc) =>
              run_pc' = "check" /\ run_errors' = run_errors
       /\ (run_pc = "check" /\ run_pc' # run_pc) =>
              IF exit_event THEN run_pc' = "exited" /\ run_errors' = run_errors
              ELSE run_pc' \in {"consuming", "backoff", "interrupted"}
       /\ run_pc' = "interrupted" => run_errors' = run_errors
       /\ run_pc \in {"exited", "interrupted"} =>
              run_pc' = run_pc /\ run_errors' = run_errors /\ api_log' = api_log]_vars

\* C30 witness: after a connection failure and the sleep, stop() not
\* signalled, run() is consuming again.
C30_Witness ==
    /\ run_errors = <<"connection">>
    /\ run_pc = "consuming"
    /\ ~exit_event
    /\ stop_pc = "idle"

\* C36: once stop() has returned, no step acknowledges a message or starts
\* a worker.
C36_NothingAfterStopReturned ==
    [][stop_pc = "returned" =>
          /\ \A k \in (Len(api_log) + 1)..Len(api_log') :
                 api_log'[k].op \notin {"basic_ack", "start"}
          /\ Len(workers') = Len(workers)]_vars

(***************************************************************************)
(* check_max_tlp                                                           *)
(***************************************************************************)
\* Most calls of check_max_tlp in one behaviour.
MaxChecks == 2

\* The four TLP labels, and a label that is none of them.
TlpLabels == {"TLP:WHITE", "TLP:GREEN", "TLP:AMBER", "TLP:RED"}
OtherLabel == "TLP:CLEAR"

\* allowed_tlps (lines 1013-1018)
allowed_tlps ==
    [max_tlp \in TlpLabels |->
        CASE max_tlp = "TLP:RED" -> <<"TLP:WHITE", "TLP:GREEN", "TLP:AMBER", "TLP:RED">>
          [] max_tlp = "TLP:AMBER" -> <<"TLP:WHITE", "TLP:GREEN", "TLP:AMBER">>
          [] max_tlp = "TLP:GREEN" -> <<"TLP:WHITE", "TLP:GREEN">>
          [] max_tlp = "TLP:WHITE" -> <<"TLP:WHITE">>]

Mut_check_max_tlp(tlp, max_tlp) ==
    IF max_tlp \in DOMAIN allowed_tlps
    THEN [kind |-> "returned", value |-> tlp = max_tlp]
    ELSE [kind |-> "KeyError", value |-> FALSE]

\* return tlp in allowed_tlps[max_tlp]; a max_tlp that is no key raises KeyError.
check_max_tlp(tlp, max_tlp) ==
    IF max_tlp \in DOMAIN allowed_tlps
    THEN [kind |-> "returned", value |-> InList(tlp, allowed_tlps[max_tlp])]
    ELSE [kind |-> "KeyError", value |-> FALSE]

InitTlp ==
    /\ HelperOff
    /\ SplitOff
    /\ SendOff
    /\ StreamOff
    /\ QueueOff
    /\ PingOff
    /\ ThreadsOff
    /\ PollOff
    /\ tlp_calls = <<>>

\* OpenCTIConnectorHelper.check_max_tlp(tlp, max_tlp)
CheckMaxTlp ==
    /\ Len(tlp_calls) < MaxChecks
    /\ \E tlp \in TlpLabels \cup {OtherLabel}, max_tlp \in TlpLabels \cup {OtherLabel} :
         /\ tlp \in TlpLabels \/ max_tlp \in TlpLabels
         /\ tlp_calls' = Append(tlp_calls, [tlp |-> tlp, max_tlp |-> max_tlp,
                                            outcome |-> check_max_tlp(tlp, max_tlp)])
    /\ UNCHANGED notTlp

NextTlp == CheckMaxTlp

SpecTlp == InitTlp /\ [][NextTlp]_vars

\* The place of a label in the order WHITE < GREEN < AMBER < RED.
TlpRank(label) ==
    CASE label = "TLP:WHITE" -> 0
      [] label = "TLP:GREEN" -> 1
      [] label = "TLP:AMBER" -> 2
      [] label = "TLP:RED" -> 3

\* C17: for every pair of the four labels check_max_tlp returns, and it
\* returns True exactly when tlp is at or below max_tlp in the order
\* WHITE < GREEN < AMBER < RED.
C17_TlpOrder ==
    \A k \in 1..Len(tlp_calls) :
        LET c == tlp_calls[k] IN
        (c.tlp \in TlpLabels /\ c.max_tlp \in TlpLabels) =>
            /\ c.outcome.kind = "returned"
            /\ c.outcome.value = (TlpRank(c.tlp) <= TlpRank(c.max_tlp))

\* C17 witness: GREEN within AMBER was answered True and RED within GREEN False.
C17_Witness ==
    tlp_calls =
      << [tlp |-> "TLP:GREEN", max_tlp |-> "TLP:AMBER",
          outcome |-> [kind |-> "returned", value |-> TRUE]],
         [tlp |-> "TLP:RED", max_tlp |-> "TLP:GREEN",
          outcome |-> [kind |-> "returned", value |-> FALSE]] >>

(***************************************************************************)
(* Two split_stix2_bundle calls on one helper, running at the same time    *)
(***************************************************************************)
\* The bundles the two threads split.
ThreadBundles ==
    { Bundle(<<Entity("A", NoRef, <<>>)>>),
      Bundle(<<Entity("A", "B", <<>>), Entity("B", NoRef, <<>>)>>),
      Bundle(<<Report("A", <<"B">>, NoRef, <<>>), Entity("B", NoRef, <<>>)>>),
      Bundle(<<Entity("C", NoRef, <<"D">>), Entity("D", NoRef, <<>>)>>),
      NotJson }

\* A thread that has not entered its call.
Thread(b) == [bundle |-> b, phase |-> "reset", k |-> 1, bundles |-> <<>>, raised |-> NoError]

\* The state a thread's next loop iteration works on: the helper's fields
\* as they are now, and the thread's local list.
ThreadState(t) ==
    [cache_index |-> cache_index, cache_added |-> cache_added,
     bundles |-> threads[t].bundles, raised |-> threads[t].raised, call |-> t]

\* The loop after the given one.
NextPhase(phase) ==
    CASE phase = "index" -> "report"
      [] phase = "report" -> "relationship"
      [] phase = "relationship" -> "entity"
      [] phase = "entity" -> "done"

\* One iteration of the loop the thread is in.
PhaseStep(phase, st, item) ==
    CASE phase = "index" -> [st EXCEPT !.cache_index = IndexObjects(<<item>>, 1, st.cache_index)]
      [] phase = "report" -> ReportStep(st, item)
      [] phase = "relationship" -> RelationshipStep(st, item)
      [] phase = "entity" -> EntityStep(st, item)

InitThreads ==
    /\ HelperOff
    /\ SplitOff
    /\ SendOff
    /\ StreamOff
    /\ QueueOff
    /\ PingOff
    /\ TlpOff
    /\ PollOff
    /\ threads \in [1..2 -> {Thread(b) : b \in ThreadBundles}]

\* Lines 823-828: the thread resets the helper's fields and decodes its bundle.
ThreadReset(t) ==
    /\ threads[t].phase = "reset"
    /\ cache_index' = ResetCacheIndex(cache_index)
    /\ cache_added' = ResetCacheAdded(cache_added)
    /\ threads' = [threads EXCEPT
                      ![t].phase = IF threads[t].bundle.json_ok THEN "index" ELSE "done",
                      ![t].raised = IF threads[t].bundle.json_ok THEN NoError ELSE "Exception"]
    /\ UNCHANGED <<bundle, result, first_result, calls, notThreads>>

\* One iteration of the loop the thread is in (lines 835-867), or the end of
\* that loop; an exception and the end of the last loop end the call.
ThreadStep(t) ==
    /\ threads[t].phase \in {"index", "report", "relationship", "entity"}
    /\ LET th == threads[t]
           objects == th.bundle.objects
       IN  IF th.k > Len(objects)
           THEN /\ threads' = [threads EXCEPT ![t].phase = NextPhase(th.phase), ![t].k = 1]
                /\ UNCHANGED <<cache_index, cache_added>>
           ELSE LET st == PhaseStep(th.phase, ThreadState(t), objects[th.k])
                IN  /\ cache_index' = st.cache_index
                    /\ cache_added' = st.cache_added
                    /\ threads' = [threads EXCEPT
                                      ![t].bundles = st.bundles,
                                      ![t].raised = st.raised,
                                      ![t].k = th.k + 1,
                                      ![t].phase = IF st.raised # NoError THEN "done"
                                                   ELSE th.phase]
    /\ UNCHANGED <<bundle, result, first_result, calls, notThreads>>

NextThreads == \E t \in 1..2 : ThreadReset(t) \/ ThreadStep(t)

SpecThreads == InitThreads /\ [][NextThreads]_vars

\* What a call on the thread's bundle gives on a helper nobody else uses.
Alone(t) == Outcome(split_stix2_bundle(threads[t].bundle, <<>>, <<>>, t))

\* C23: a call that ran while another call ran on the same helper gives what
\* it gives alone: the same exception, or the same ids in the same sub-bundles.
C23_InterleavedCallsIndependent ==
    \A t \in DOMAIN threads :
        threads[t].phase = "done" =>
            Structure([raised |-> threads[t].raised,
                       bundles |-> IF threads[t].raised = NoError
                                   THEN threads[t].bundles ELSE <<>>]) = Structure(Alone(t))

(***************************************************************************)
(* The polling loop of _process_message, one second at a time              *)
(***************************************************************************)
\* five_minutes = 60 * 5
five_minutes == 300

\* Longest time a worker is followed, in seconds.
MaxSeconds == 610

\* After self.thread.start(): time_wait = 0, no sleep yet. helper.work_id is
\* what an earlier message left there.
InitPoll ==
    /\ HelperOff
    /\ SplitOff
    /\ SendOff
    /\ StreamOff
    /\ QueueOff
    /\ PingOff
    /\ TlpOff
    /\ ThreadsOff
    /\ poll_pc = "loop"
    /\ poll_work_id \in {None, "work-0"}
    /\ time_wait = 0
    /\ seconds = 0
    /\ pings = <<>>

\* self.helper.work_id = work_id (line 164), among the first statements of
\* the worker: it is done before the first sleep of the loop is over.
DataHandlerSetsWorkId ==
    /\ poll_pc = "loop"
    /\ seconds = 0
    /\ \E id \in {None, "work-1"} :
          /\ id # poll_work_id
          /\ poll_work_id' = id
    /\ UNCHANGED <<poll_pc, time_wait, seconds, pings, notPoll>>

\* Whether the loop body pings (lines 143-145).
ping_due(id, waited) == id # None /\ waited > five_minutes

\* One turn of the loop with the worker alive and work.ping returning:
\* ping and reset time_wait, or count one more; then time.sleep(1).
PollStep ==
    /\ poll_pc = "loop"
    /\ seconds < MaxSeconds
    /\ IF ping_due(poll_work_id, time_wait)
       THEN /\ pings' = Append(pings, seconds)
            /\ time_wait' = 0
       ELSE /\ time_wait' = time_wait + 1
            /\ UNCHANGED pings
    /\ seconds' = seconds + 1
    /\ UNCHANGED <<poll_pc, poll_work_id, notPoll>>

\* work.ping raises: the exception leaves _process_message.
PollPingRaises ==
    /\ poll_pc = "loop"
    /\ ping_due(poll_work_id, time_wait)
    /\ poll_pc' = "failed"
    /\ UNCHANGED <<poll_work_id, time_wait, seconds, pings, notPoll>>

\* self.thread.is_alive() is False: the loop ends.
PollWorkerEnded ==
    /\ poll_pc = "loop"
    /\ poll_pc' = "done"
    /\ UNCHANGED <<poll_work_id, time_wait, seconds, pings, notPoll>>

NextPoll == DataHandlerSetsWorkId \/ PollStep \/ PollPingRaises \/ PollWorkerEnded

SpecPoll == InitPoll /\ [][NextPoll]_vars

\* C27: with a work id set, the k-th ping is made when 300 * k seconds of
\* polling have passed: the first after 300 seconds, each further one 300
\* seconds after the one before; and it has been made by then.
C27_PingEvery300Seconds ==
    /\ \A k \in 1..Len(pings) : pings[k] = k * five_minutes
    /\ \A k \in 1..2 :
          (poll_work_id # None /\ poll_pc # "failed" /\ seconds > k * five_minutes)
              => Len(pings) >= k

(***************************************************************************)
(* The stream consumer and the heartbeat loop on one helper                *)
(***************************************************************************)
\* listen_stream on a connector whose heartbeat thread runs (lines 538-542):
\* both threads read and write helper.connector_state.
InitStreamPing ==
    /\ HelperOff
    /\ SplitOff
    /\ SendOff
    /\ QueueOff
    /\ TlpOff
    /\ ThreadsOff
    /\ PollOff
    /\ connector_state \in StoredStates
    /\ start_timestamp \in {None, "", "1700000000000"}
    /\ (connector_state # PyNone => start_timestamp = None)
    /\ feed \in {ExampleFeed, ExampleFeedHeartbeat}
    /\ stream_pc = "start"
    /\ stream_pos = 0
    /\ stream_todo = <<>>
    /\ stream_exit = FALSE
    /\ stream_initial = PyNone
    /\ stream_calls = <<>>
    /\ stream_returned = <<>>
    /\ stream_writes = <<>>
    /\ stream_config = StreamConfig(None, None, None, None)
    /\ stream_request = None
    /\ ping_pc = "loop"
    /\ ping_exit = FALSE
    /\ ping_in_error = FALSE
    /\ ping_iterations = 0
    /\ ping_last = NoPing

NextStreamPing ==
    \/ NextStream
    \/ PingSend
    \/ PingIteration
    \/ PingLoopExit
    \/ PingStop

SpecStreamPing == InitStreamPing /\ [][NextStreamPing]_vars

\* The stream consumer is about to write a checkpoint: it reads get_state().
ReadsState == stream_pc = "loop" /\ stream_todo # <<>> /\ Head(stream_todo) = "checkpoint"

\* A checkpoint write raised.
CheckpointFailed ==
    stream_pc = "killed" /\ stream_todo # <<>> /\ Head(stream_todo) = "checkpoint"

\* C35: with the heartbeat loop running on the same helper, wherever the
\* stream consumer reads the state for a checkpoint get_state() gives a
\* mapping that holds connectorLastEventId, and no checkpoint write fails.
C35_CheckpointAlwaysSucceeds ==
    /\ ReadsState =>
          /\ get_state(connector_state) # PyNone
          /\ "connectorLastEventId" \in DOMAIN get_state(connector_state).dict
    /\ ~CheckpointFailed

(***************************************************************************)
(* OpenCTIConnectorHelper.stop                                             *)
(***************************************************************************)

\* The queues the listener of a stopped helper is given.
HelperQueues == { <<>>, <<Body("work-1")>> }

\* The helper after __init__: the heartbeat thread is created and started
\* unless connect_run_and_terminate is set (lines 538-542), listen_queue is
\* None (line 545).
InitHelper ==
    /\ SplitOff
    /\ SendOff
    /\ StreamOff
    /\ TlpOff
    /\ ThreadsOff
    /\ PollOff
    /\ queue \in HelperQueues
    /\ run_pc = "off"
    /\ exit_event = FALSE
    /\ workers = <<>>
    /\ work_id = None
    /\ api_log = <<>>
    /\ run_errors = <<>>
    /\ stop_pc = "idle"
    /\ stop_thread = 0
    /\ \E connect_run_and_terminate \in BOOLEAN :
           ping_pc = IF connect_run_and_terminate THEN "off" ELSE "loop"
    /\ ping_exit = FALSE
    /\ ping_in_error = FALSE
    /\ ping_iterations = 0
    /\ ping_last = NoPing
    /\ helper_pc = "ready"

\* The attributes stop() reads: self.listen_queue is set by listen(), self.ping
\* exists only when __init__ created the heartbeat thread.
listen_queue_set == run_pc # "off"
has_ping == ping_pc # "off"

\* helper.listen(): the ListenQueue thread is created and started.
HelperListen ==
    /\ helper_pc = "ready"
    /\ ~listen_queue_set
    /\ run_pc' = "check"
    /\ UNCHANGED <<queue, exit_event, workers, work_id, api_log, run_errors, stop_pc,
                   stop_thread>>
    /\ UNCHANGED <<splitVars, sendVars, streamVars, pingVars, tlpVars, threadVars, pollVars,
                   helperVars>>

\* stop() is called: `if self.listen_queue:` (line 548).
stop_first(listening) == IF listening THEN "listen_queue.stop" ELSE "ping.stop"

HelperStop ==
    /\ helper_pc = "ready"
    /\ helper_pc' = stop_first(listen_queue_set)
    /\ UNCHANGED <<splitVars, sendVars, streamVars, queueVars, pingVars, tlpVars, threadVars,
                   pollVars>>

\* self.listen_queue.stop() (line 549) is called.
HelperQueueStop ==
    /\ helper_pc = "listen_queue.stop"
    /\ QueueStop

\* self.listen_queue.stop() waits for the worker it joins.
HelperQueueStopJoined ==
    /\ helper_pc = "listen_queue.stop"
    /\ QueueStopJoined

\* self.listen_queue.stop() has returned.
HelperQueueStopped ==
    /\ helper_pc = "listen_queue.stop"
    /\ stop_pc = "returned"
    /\ helper_pc' = "ping.stop"
    /\ UNCHANGED <<splitVars, sendVars, streamVars, queueVars, pingVars, tlpVars, threadVars,
                   pollVars>>

\* self.ping.stop() (line 552): the attribute lookup raises AttributeError
\* when no heartbeat thread was created, else exit_event is set.
ping_stop(exists) == IF exists THEN "unregister" ELSE "raised"

HelperPingStop ==
    /\ helper_pc = "ping.stop"
    /\ helper_pc' = ping_stop(has_ping)
    /\ ping_exit' = (has_ping \/ ping_exit)
    /\ UNCHANGED <<ping_pc, ping_in_error, ping_iterations, ping_last>>
    /\ UNCHANGED <<splitVars, sendVars, streamVars, queueVars, tlpVars, threadVars, pollVars>>

\* self.api.connector.unregister(self.connector_id) (line 553).
HelperUnregister ==
    /\ helper_pc = "unregister"
    /\ helper_pc' = "unregistered"
    /\ UNCHANGED <<splitVars, sendVars, streamVars, queueVars, pingVars, tlpVars, threadVars,
                   pollVars>>

NextHelper ==
    \/ HelperListen
    \/ HelperStop
    \/ HelperQueueStop
    \/ HelperQueueStopJoined
    \/ HelperQueueStopped
    \/ HelperPingStop
    \/ HelperUnregister
    \/ RunConnect
    \/ RunConnectionError
    \/ RunInterrupt
    \/ RunBackoffOver
    \/ ProcessMessage
    \/ ProcessMessageReturns
    \/ PingWork
    \/ \E w \in 1..Len(workers) : WorkerBegin(w)
    \/ \E w \in 1..Len(workers) : WorkerCall(w)
    \/ PingSend
    \/ PingIteration
    \/ PingLoopExit

SpecHelper == InitHelper /\ [][NextHelper]_vars

\* C37: stop() never ends before its unregister call: whether or not a queue
\* listener was started, with run-and-terminate on or off.
C37_StopReachesUnregister == helper_pc # "raised"

====
